---- MODULE Spec2Model ----
(***************************************************************************)
(* Verification model of the Options Pricing and Greeks Engine and of the  *)
(* Algorithmic Trading Strategy engine.                                    *)
(*                                                                         *)
(* Numbers.  The C++ code computes in IEEE doubles.  Here a double is an   *)
(* integer counting units of 1/SCALE, together with three special values   *)
(* NaN, PInf and NInf that follow the IEEE rules the code relies on        *)
(* (a comparison with NaN is false, x/0 is an infinity, 0/0 and sqrt of a  *)
(* negative number are NaN).  Magnitudes above MaxFinite overflow to an    *)
(* infinity.  Every elementary function (exp, log, sqrt, the normal CDF)   *)
(* is computed, not assumed: by series in fixed point.                     *)
(***************************************************************************)
EXTENDS Integers, Sequences, FiniteSets, TLC

(* ------------------------------------------------------------------ *)
(* double: fixed-point numbers with IEEE special values                *)
(* ------------------------------------------------------------------ *)

\* one unit is 1/SCALE
SCALE == 1000
\* the largest finite magnitude (1000.0); larger results are infinities
MaxFinite == 1000000
PInf == 1000000000
NInf == -1000000000
NaN == 2000000000

IsNaN(a) == a = NaN
IsInf(a) == a = PInf \/ a = NInf
IsFinite(a) == ~IsNaN(a) /\ ~IsInf(a)

Sign(a) == IF a > 0 THEN 1 ELSE IF a < 0 THEN -1 ELSE 0
IAbs(a) == IF a < 0 THEN -a ELSE a

\* an exact integer result, overflowing to an infinity
Saturate(n) == IF n > MaxFinite THEN PInf ELSE IF n < -MaxFinite THEN NInf ELSE n

\* n / d rounded to nearest, for n >= 0 and d > 0
RoundDiv(n, d) == (2 * n + d) \div (2 * d)

\* a < b, a > b, ... on doubles: false when either side is NaN
FLt(a, b) == ~IsNaN(a) /\ ~IsNaN(b) /\ a < b
FGt(a, b) == FLt(b, a)
FLe(a, b) == ~IsNaN(a) /\ ~IsNaN(b) /\ a <= b
FGe(a, b) == FLe(b, a)

FNeg(a) == IF IsNaN(a) THEN NaN ELSE -a

FAbs(a) == IF IsNaN(a) THEN NaN ELSE IAbs(a)

FAdd(a, b) ==
    IF IsNaN(a) \/ IsNaN(b) THEN NaN
    ELSE IF IsInf(a) /\ IsInf(b) THEN (IF a = b THEN a ELSE NaN)
    ELSE IF IsInf(a) THEN a
    ELSE IF IsInf(b) THEN b
    ELSE Saturate(a + b)

FSub(a, b) == FAdd(a, FNeg(b))

\* the product of two finite magnitudes x, y <= MaxFinite, in units
MulMag(x, y) == (x \div SCALE) * y + RoundDiv((x % SCALE) * y, SCALE)

FMul(a, b) ==
    IF IsNaN(a) \/ IsNaN(b) THEN NaN
    ELSE IF IsInf(a) \/ IsInf(b)
         THEN (IF a = 0 \/ b = 0 THEN NaN
               ELSE IF Sign(a) * Sign(b) > 0 THEN PInf ELSE NInf)
    ELSE Saturate(Sign(a) * Sign(b) * MulMag(IAbs(a), IAbs(b)))

FDiv(a, b) ==
    IF IsNaN(a) \/ IsNaN(b) THEN NaN
    ELSE IF IsInf(a)
         THEN (IF IsInf(b) THEN NaN
               ELSE IF Sign(a) * (IF b < 0 THEN -1 ELSE 1) > 0 THEN PInf ELSE NInf)
    ELSE IF IsInf(b) THEN 0
    ELSE IF b = 0
         THEN (IF a = 0 THEN NaN ELSE IF a > 0 THEN PInf ELSE NInf)
    ELSE Saturate(Sign(a) * Sign(b) * RoundDiv(IAbs(a) * SCALE, IAbs(b)))

\* the integer square root of n >= 0, by bisection on [lo, hi)
RECURSIVE ISqrtIn(_, _, _)
ISqrtIn(n, lo, hi) ==
    IF hi - lo <= 1 THEN lo
    ELSE LET mid == (lo + hi) \div 2
         IN IF mid * mid <= n THEN ISqrtIn(n, mid, hi) ELSE ISqrtIn(n, lo, mid)

ISqrt(n) == ISqrtIn(n, 0, 40000)

\* std::sqrt
FSqrt(a) ==
    IF IsNaN(a) \/ a < 0 THEN NaN
    ELSE IF a = PInf THEN PInf
    ELSE ISqrt(a * SCALE)

\* e^n for an integer n >= 0, by repeated multiplication (e = 2.718)
RECURSIVE ExpInt(_)
ExpInt(n) == IF n = 0 THEN SCALE ELSE FMul(2718, ExpInt(n - 1))

\* e^f for 0 <= f < 1 (in units): the Taylor series to the 8th power
ExpFrac(f) ==
    LET t1 == f
        t2 == MulMag(t1, f) \div 2
        t3 == MulMag(t2, f) \div 3
        t4 == MulMag(t3, f) \div 4
        t5 == MulMag(t4, f) \div 5
        t6 == MulMag(t5, f) \div 6
        t7 == MulMag(t6, f) \div 7
        t8 == MulMag(t7, f) \div 8
    IN SCALE + t1 + t2 + t3 + t4 + t5 + t6 + t7 + t8

\* e^x for a finite x >= 0; beyond e^7 the result exceeds MaxFinite
ExpPos(x) ==
    IF x >= 7 * SCALE THEN PInf
    ELSE FMul(ExpInt(x \div SCALE), ExpFrac(x % SCALE))

\* std::exp
FExp(a) ==
    IF IsNaN(a) THEN NaN
    ELSE IF a = PInf THEN PInf
    ELSE IF a = NInf THEN 0
    ELSE IF a >= 0 THEN ExpPos(a)
    ELSE FDiv(SCALE, ExpPos(-a))

\* ln(m) for 1 <= m < 2 (in units): 2 atanh((m-1)/(m+1)), series to z^7
LogMant(m) ==
    LET z  == RoundDiv((m - SCALE) * SCALE, m + SCALE)
        z2 == MulMag(z, z)
        z3 == MulMag(z2, z)
        z5 == MulMag(z3, z2)
        z7 == MulMag(z5, z2)
    IN 2 * (z + z3 \div 3 + z5 \div 5 + z7 \div 7)

\* ln(x) for a finite x > 0 (in units): halve or double into [1, 2), ln 2 = 0.693
RECURSIVE LogPos(_)
LogPos(x) ==
    IF x >= 2 * SCALE THEN 693 + LogPos(x \div 2)
    ELSE IF x < SCALE THEN LogPos(2 * x) - 693
    ELSE LogMant(x)

\* std::log
FLog(a) ==
    IF IsNaN(a) \/ a < 0 THEN NaN
    ELSE IF a = 0 THEN NInf
    ELSE IF a = PInf THEN PInf
    ELSE LogPos(a)

\* std::max(a, b) == (a < b) ? b : a
FMax(a, b) == IF FLt(a, b) THEN b ELSE a

\* std::clamp(v, lo, hi) == (v < lo) ? lo : (hi < v) ? hi : v; a NaN passes through
FClamp(v, lo, hi) == IF FLt(v, lo) THEN lo ELSE IF FLt(hi, v) THEN hi ELSE v

(* ------------------------------------------------------------------ *)
(* utils/normal_dist.h                                                 *)
(* ------------------------------------------------------------------ *)

\* norm_cdf: Abramowitz & Stegun; the coefficients a1..a5, p in units
norm_cdf(x0) ==
    IF FGt(x0, 8 * SCALE) THEN SCALE
    ELSE IF FLt(x0, -8 * SCALE) THEN 0
    ELSE LET sign == IF FGe(x0, 0) THEN SCALE ELSE -SCALE
             x    == FDiv(FAbs(x0), FSqrt(2 * SCALE))
             t    == FDiv(SCALE, FAdd(SCALE, FMul(328, x)))
             poly == FMul(FAdd(FMul(FAdd(FMul(FAdd(FMul(FAdd(FMul(1061, t),
                              -1453), t), 1421), t), -284), t), 255), t)
             y    == FSub(SCALE, FMul(poly, FExp(FNeg(FMul(x, x)))))
         IN FMul(500, FAdd(SCALE, FMul(sign, y)))

\* norm_pdf: inv_sqrt_2pi * exp(-0.5 x^2)
norm_pdf(x0) == FMul(399, FExp(FMul(FMul(-500, x0), x0)))

\* the rational approximations of lines 68-78, coefficients in units of 1/SCALE
norm_inv_a == <<-39697, 220946, -275929, 138358, -30665, 2507>>
norm_inv_b == <<-54476, 161586, -155699, 66801, -13281, SCALE>>
norm_inv_c == <<-8, -322, -2401, -2550, 4375, 2938>>
norm_inv_d == <<8, 322, 2445, 3754, SCALE>>

\* (((cs[1] * x + cs[2]) * x + ...) * x + cs[Len(cs)], from coefficient k on
RECURSIVE Horner(_, _, _, _)
Horner(cs, k, x, acc) ==
    IF k > Len(cs) THEN acc
    ELSE Horner(cs, k + 1, x, FAdd(FMul(acc, x), cs[k]))

Poly(cs, x) == Horner(cs, 2, x, cs[1])

\* lines 41-80
norm_inv(u) ==
    IF FLe(u, 0) THEN -8 * SCALE
    ELSE IF FGe(u, SCALE) THEN 8 * SCALE
    ELSE IF FLt(u, 24)
    THEN LET q == FSqrt(FMul(-2 * SCALE, FLog(u)))
         IN  FDiv(Poly(norm_inv_c, q), Poly(norm_inv_d, q))
    ELSE IF FLe(u, 976)
    THEN LET q == FSub(u, 500)
             r == FMul(q, q)
         IN  FDiv(FMul(Poly(norm_inv_a, r), q), Poly(norm_inv_b, r))
    ELSE LET q == FSqrt(FMul(-2 * SCALE, FLog(FSub(SCALE, u))))
         IN  FDiv(FNeg(Poly(norm_inv_c, q)), Poly(norm_inv_d, q))

(* ------------------------------------------------------------------ *)
(* pricing/types.h                                                     *)
(* ------------------------------------------------------------------ *)

OptionType == {"CALL", "PUT"}
ExerciseStyle == {"EUROPEAN", "AMERICAN"}

\* struct OptionParams
OptionParams(S, K, T, r, sigma, q, type) ==
    [S |-> S, K |-> K, T |-> T, r |-> r, sigma |-> sigma, q |-> q,
     type |-> type, style |-> "EUROPEAN"]

intrinsic_value(S, K, type) ==
    IF type = "CALL" THEN FMax(FSub(S, K), 0) ELSE FMax(FSub(K, S), 0)

(* ------------------------------------------------------------------ *)
(* State                                                               *)
(* ------------------------------------------------------------------ *)

VARIABLES
    solver,     \* one activation of ImpliedVolSolver::solve
    bs,         \* the last call of a BlackScholes function and its outcome
    tree,       \* the last call of BinomialTree::price and its outcome
    fd,         \* one activation of FiniteDifferenceGreeks::compute
    cal,        \* one activation of VolSurface::calibrate and its workers
    mc,         \* one activation of MonteCarloEngine::price or price_multistep
    risk,       \* a RiskManager, the equities it was shown, and its last answer
    pf,         \* a Portfolio, its last execute_fill call and the net fills
    wf,         \* one activation of WalkForwardValidator::generate_windows
    rg          \* the last call of a RandomGenerator function and its samples

vars == <<solver, bs, tree, fd, cal, mc, risk, pf, wf, rg>>

nonSolver == <<bs, tree, fd, cal, mc, risk, pf, wf, rg>>
nonBs == <<solver, tree, fd, cal, mc, risk, pf, wf, rg>>
nonTree == <<solver, bs, fd, cal, mc, risk, pf, wf, rg>>
nonFd == <<solver, bs, tree, cal, mc, risk, pf, wf, rg>>
nonCal == <<solver, bs, tree, fd, mc, risk, pf, wf, rg>>
nonMc == <<solver, bs, tree, fd, cal, risk, pf, wf, rg>>
nonRisk == <<solver, bs, tree, fd, cal, mc, pf, wf, rg>>
nonPf == <<solver, bs, tree, fd, cal, mc, risk, wf, rg>>
nonWf == <<solver, bs, tree, fd, cal, mc, risk, pf, rg>>
nonRg == <<solver, bs, tree, fd, cal, mc, risk, pf, wf>>

\* the components before any call
NoParams == OptionParams(0, 0, 0, 0, 0, 0, "CALL")

BsIdle == [op |-> "none", p |-> NoParams, kind |-> "none", value |-> 0]

TreeIdle == [called |-> FALSE, p |-> NoParams, steps |-> 0, prob |-> 0,
             kind |-> "none", price |-> 0]

NoGreeks == [delta |-> 0, gamma |-> 0, theta |-> 0, vega |-> 0, rho |-> 0,
             vanna |-> 0, volga |-> 0, charm |-> 0, speed |-> 0]

FdIdle == [pc |-> "idle", p |-> NoParams, base_price |-> 0, g |-> NoGreeks,
           calls |-> <<>>]

\* the team of the parallel loop of calibrate
NumWorkers == 2
Workers == 1..NumWorkers

NoPoint == [strike |-> 0, expiry |-> 0, implied_vol |-> 0, market_price |-> 0,
            model_price |-> 0, error |-> 0]

CalIdle ==
    [pc |-> "idle", quotes |-> <<>>, spot |-> 0, rate |-> 0, div_yield |-> 0,
     fit |-> <<>>, surface |-> <<>>, next |-> 0,
     wk |-> [w \in Workers |-> [pc |-> "free", it |-> 0, pt |-> NoPoint]],
     writes |-> <<>>, log |-> {}, joined |-> FALSE, sse |-> 0,
     total_rmse |-> 0, max_error |-> 0, iterations |-> 0]

\* the team of the parallel loops of the Monte Carlo engine
NumThreads == 2
Threads == 1..NumThreads

NoChunk == [lo |-> 1, hi |-> 0]

McIdle ==
    [pc |-> "idle", fn |-> "none", p |-> NoParams, num_paths |-> 0,
     num_steps |-> 0, vr |-> "NONE", seed |-> 0, drift |-> 0,
     vol_sqrt_dt |-> 0, df |-> 0, z |-> <<>>, payoffs |-> <<>>,
     terminals |-> <<>>, part |-> [t \in Threads |-> NoChunk],
     tpart |-> [t \in Threads |-> NoChunk], cur |-> [t \in Threads |-> 0],
     rng |-> [t \in Threads |-> [seed |-> 0, pos |-> 0]],
     writes |-> <<>>, log |-> {}, joined |-> FALSE,
     price |-> 0, std_error |-> 0, paths |-> 0]

\* RiskManager(), max_drawdown_pct left to its default of 0.20; seen, op and
\* ret record the equities shown since the last reset, the last member called
\* and what it returned
RiskIdle ==
    [max_drawdown_pct |-> 200, peak_equity |-> 0, is_stopped |-> FALSE,
     seen |-> <<>>, op |-> "none", ret |-> FALSE]

PfSymbols == {"AAPL", "MSFT"}

\* the order of the last call, before any call
NoOrder ==
    [symbol |-> "AAPL", side |-> "BUY", quantity |-> 0, market_price |-> 0,
     slippage |-> 0, commission |-> 0]

\* Portfolio(50.0): no position, no trade; calls, last, thrown and net record
\* the number of execute_fill calls, the last one, whether it threw, and the
\* net quantity filled per symbol
PfIdle ==
    [cash |-> 50 * SCALE, positions |-> [sym \in {} |-> 0], trades |-> <<>>,
     calls |-> 0, last |-> NoOrder, thrown |-> FALSE,
     net |-> [sym \in PfSymbols |-> 0]]

\* generate_windows before any call
WfIdle ==
    [pc |-> "idle", total_bars |-> 0, train_days |-> 0, test_days |-> 0,
     step_days |-> 0, start |-> 0, id |-> 0, windows |-> <<>>]

\* no RandomGenerator function called yet
RgIdle == [fn |-> "none", n |-> 0, seed |-> 0, samples |-> <<>>]

(* ------------------------------------------------------------------ *)
(* pricing/black_scholes.h                                             *)
(* ------------------------------------------------------------------ *)

calc_d1(p) ==
    FDiv(FAdd(FLog(FDiv(p.S, p.K)),
              FMul(FAdd(FSub(p.r, p.q), FMul(FMul(500, p.sigma), p.sigma)), p.T)),
         FMul(p.sigma, FSqrt(p.T)))

\* the price field of BlackScholes::price(p); the code tests no parameter
BS_price_value(p) ==
    LET d1 == calc_d1(p)
        d2 == FSub(d1, FMul(p.sigma, FSqrt(p.T)))
        df == FExp(FMul(FNeg(p.r), p.T))
        fwd_factor == FExp(FMul(FNeg(p.q), p.T))
    IN IF p.type = "CALL"
       THEN FSub(FMul(FMul(p.S, fwd_factor), norm_cdf(d1)),
                 FMul(FMul(p.K, df), norm_cdf(d2)))
       ELSE FSub(FMul(FMul(p.K, df), norm_cdf(FNeg(d2))),
                 FMul(FMul(p.S, fwd_factor), norm_cdf(FNeg(d1))))

\* BlackScholes::price: always returns a PricingResult
BS_price(p) ==
    [price |-> BS_price_value(p), std_error |-> 0, method |-> "Black-Scholes",
     paths |-> 0]

\* BlackScholes::vega, per 1% of volatility
BS_vega(p) ==
    LET d1 == calc_d1(p)
        fwd == FExp(FMul(FNeg(p.q), p.T))
    IN FDiv(FMul(FMul(FMul(p.S, fwd), norm_pdf(d1)), FSqrt(p.T)), 100 * SCALE)

\* BlackScholes::delta
BS_delta(p) ==
    LET d1 == calc_d1(p)
        fwd == FExp(FMul(FNeg(p.q), p.T))
    IN IF p.type = "CALL" THEN FMul(fwd, norm_cdf(d1))
       ELSE FMul(fwd, FSub(norm_cdf(d1), SCALE))

\* BlackScholes::gamma
BS_gamma(p) ==
    LET d1 == calc_d1(p)
        fwd == FExp(FMul(FNeg(p.q), p.T))
    IN FDiv(FMul(fwd, norm_pdf(d1)), FMul(FMul(p.S, p.sigma), FSqrt(p.T)))

\* BlackScholes::theta, per calendar day
BS_theta(p) ==
    LET d1 == calc_d1(p)
        d2 == FSub(d1, FMul(p.sigma, FSqrt(p.T)))
        fwd == FExp(FMul(FNeg(p.q), p.T))
        df == FExp(FMul(FNeg(p.r), p.T))
        term1 == FDiv(FNeg(FMul(FMul(FMul(p.S, fwd), norm_pdf(d1)), p.sigma)),
                      FMul(2 * SCALE, FSqrt(p.T)))
    IN IF p.type = "CALL"
       THEN FDiv(FSub(FAdd(term1, FMul(FMul(FMul(p.q, p.S), fwd), norm_cdf(d1))),
                      FMul(FMul(FMul(p.r, p.K), df), norm_cdf(d2))),
                 365 * SCALE)
       ELSE FDiv(FAdd(FSub(term1, FMul(FMul(FMul(p.q, p.S), fwd), norm_cdf(FNeg(d1)))),
                      FMul(FMul(FMul(p.r, p.K), df), norm_cdf(FNeg(d2)))),
                 365 * SCALE)

\* BlackScholes::rho, per 1% of rate
BS_rho(p) ==
    LET d2 == FSub(calc_d1(p), FMul(p.sigma, FSqrt(p.T)))
        df == FExp(FMul(FNeg(p.r), p.T))
    IN IF p.type = "CALL"
       THEN FDiv(FMul(FMul(FMul(p.K, p.T), df), norm_cdf(d2)), 100 * SCALE)
       ELSE FDiv(FMul(FMul(FMul(FNeg(p.K), p.T), df), norm_cdf(FNeg(d2))), 100 * SCALE)

\* BlackScholes::vanna
BS_vanna(p) ==
    LET d1 == calc_d1(p)
        d2 == FSub(d1, FMul(p.sigma, FSqrt(p.T)))
        fwd == FExp(FMul(FNeg(p.q), p.T))
    IN FDiv(FMul(FMul(FNeg(fwd), norm_pdf(d1)), d2), p.sigma)

\* BlackScholes::volga
BS_volga(p) ==
    LET d1 == calc_d1(p)
        d2 == FSub(d1, FMul(p.sigma, FSqrt(p.T)))
        fwd == FExp(FMul(FNeg(p.q), p.T))
    IN FDiv(FMul(FMul(FMul(FMul(FMul(p.S, fwd), norm_pdf(d1)), FSqrt(p.T)), d1), d2),
            p.sigma)

\* the value a BlackScholes function returns for p
BS_value(op, p) ==
    CASE op = "price" -> BS_price(p).price
      [] op = "delta" -> BS_delta(p)
      [] op = "gamma" -> BS_gamma(p)
      [] op = "theta" -> BS_theta(p)
      [] op = "vega"  -> BS_vega(p)
      [] op = "rho"   -> BS_rho(p)
      [] op = "vanna" -> BS_vanna(p)
      [] op = "volga" -> BS_volga(p)

\* what a caller of a BlackScholes function gets: none of the functions tests
\* its parameters or throws, each returns the value its formula yields
BS_outcome(op, p) == [op |-> op, p |-> p, kind |-> "returned", value |-> BS_value(op, p)]

(* ------------------------------------------------------------------ *)
(* pricing/binomial_tree.h                                             *)
(* ------------------------------------------------------------------ *)

\* std::pow(b, n) for an integer n >= 0
RECURSIVE FPow(_, _)
FPow(b, n) == IF n = 0 THEN SCALE ELSE FMul(FPow(b, n - 1), b)

\* lines 16-20: dt, u, d, df, prob
tree_coeffs(p, steps) ==
    LET dt == FDiv(p.T, steps * SCALE)
        u  == FExp(FMul(p.sigma, FSqrt(dt)))
        d  == FDiv(SCALE, u)
    IN [dt |-> dt, u |-> u, d |-> d,
        df |-> FExp(FMul(FNeg(p.r), dt)),
        prob |-> FDiv(FSub(FExp(FMul(FSub(p.r, p.q), dt)), d), FSub(u, d))]

\* the spot of node i at level step
tree_spot(p, c, step, i) == FMul(FMul(p.S, FPow(c.u, step - i)), FPow(c.d, i))

\* lines 23-27: the terminal payoffs prices[0 .. steps]
tree_terminal(p, c, steps) ==
    [i \in 0..steps |-> intrinsic_value(tree_spot(p, c, steps, i), p.K, p.type)]

\* lines 32-40: the value written to prices[i] at level step
tree_node(p, c, prices, step, i) ==
    LET continuation ==
            FMul(c.df, FAdd(FMul(c.prob, prices[i]),
                            FMul(FSub(SCALE, c.prob), prices[i + 1])))
    IN IF p.style = "AMERICAN"
       THEN FMax(continuation, intrinsic_value(tree_spot(p, c, step, i), p.K, p.type))
       ELSE continuation

\* the inner loop run from node step down to node 0
RECURSIVE tree_level_descending(_, _, _, _, _)
tree_level_descending(p, c, prices, step, i) ==
    IF i > step THEN prices
    ELSE tree_level_descending(p, c,
             [prices EXCEPT ![step - i] = tree_node(p, c, prices, step, step - i)],
             step, i + 1)

\* lines 31-41: the inner loop from node i of level step on, in place
RECURSIVE tree_level(_, _, _, _, _)
tree_level(p, c, prices, step, i) ==
    IF i > step THEN prices
    ELSE tree_level(p, c, [prices EXCEPT ![i] = tree_node(p, c, prices, step, i)],
                    step, i + 1)

\* lines 30-42: the backward induction from level step down to level 0
RECURSIVE tree_induction(_, _, _, _)
tree_induction(p, c, prices, step) ==
    IF step < 0 THEN prices
    ELSE tree_induction(p, c, tree_level(p, c, prices, step, 0), step - 1)

\* BinomialTree::price: prob is used as computed, never tested
BinomialTree_price(p, steps) ==
    LET c == tree_coeffs(p, steps)
        prices == tree_induction(p, c, tree_terminal(p, c, steps), steps - 1)
    IN [price |-> prices[0], std_error |-> 0, method |-> "Binomial", paths |-> 0]

\* what a caller of BinomialTree::price gets: the function holds no test of
\* prob and no throw
tree_outcome(p, steps) ==
    [called |-> TRUE, p |-> p, steps |-> steps,
     prob |-> tree_coeffs(p, steps).prob,
     kind |-> "returned", price |-> BinomialTree_price(p, steps).price]

(* ------------------------------------------------------------------ *)
(* greeks/finite_difference.h                                          *)
(* ------------------------------------------------------------------ *)

\* the default pricer of compute (line 20)
fd_pricer(p) == BS_price(p).price

\* a Perturb lambda [](OptionParams& pp, double h) { pp.axis += h; }
perturb(pp, axis, h) == [pp EXCEPT ![axis] = FAdd(@, h)]

\* the contracts central_diff passes to the pricer, in call order
central_args(p, axis, h) == <<perturb(p, axis, h), perturb(p, axis, FNeg(h))>>

central_diff(p, axis, h) ==
    LET a == central_args(p, axis, h)
    IN FDiv(FSub(fd_pricer(a[1]), fd_pricer(a[2])), FMul(2 * SCALE, h))

\* the contracts second_diff passes to the pricer, in call order
second_args(p, axis, h) == <<p, perturb(p, axis, h), perturb(p, axis, FNeg(h))>>

second_diff(p, axis, h) ==
    LET a == second_args(p, axis, h)
        base == fd_pricer(a[1])
    IN FDiv(FAdd(FSub(fd_pricer(a[2]), FMul(2 * SCALE, base)), fd_pricer(a[3])),
            FMul(h, h))

\* the contracts third_diff passes to the pricer, in call order
third_args(p, axis, h) ==
    <<perturb(p, axis, FMul(2 * SCALE, h)), perturb(p, axis, h),
      perturb(p, axis, FNeg(h)), perturb(p, axis, FMul(-2 * SCALE, h))>>

third_diff(p, axis, h) ==
    LET a == third_args(p, axis, h)
    IN FDiv(FSub(FAdd(FSub(fd_pricer(a[1]), FMul(2 * SCALE, fd_pricer(a[2]))),
                      FMul(2 * SCALE, fd_pricer(a[3]))),
                 fd_pricer(a[4])),
            FMul(FMul(FMul(2 * SCALE, h), h), h))

\* the contracts cross_diff passes to the pricer, in call order
cross_args(p, axis1, axis2, h1, h2) ==
    <<perturb(perturb(p, axis1, h1), axis2, h2),
      perturb(perturb(p, axis1, h1), axis2, FNeg(h2)),
      perturb(perturb(p, axis1, FNeg(h1)), axis2, h2),
      perturb(perturb(p, axis1, FNeg(h1)), axis2, FNeg(h2))>>

cross_diff(p, axis1, axis2, h1, h2) ==
    LET a == cross_args(p, axis1, axis2, h1, h2)
    IN FDiv(FAdd(FSub(FSub(fd_pricer(a[1]), fd_pricer(a[2])), fd_pricer(a[3])),
                 fd_pricer(a[4])),
            FMul(FMul(4 * SCALE, h1), h2))

\* the bumps of lines 27, 34, 38, 42
fd_dS(p) == FMul(p.S, 10)
fd_dT == FDiv(SCALE, 365 * SCALE)
fd_dSig == 10
fd_dR == 10

\* the order in which compute fills the Greeks (lines 28-61)
fd_next(pc) ==
    CASE pc = "delta" -> "gamma" [] pc = "gamma" -> "theta" [] pc = "theta" -> "vega"
      [] pc = "vega" -> "rho" [] pc = "rho" -> "vanna" [] pc = "vanna" -> "volga"
      [] pc = "volga" -> "charm" [] pc = "charm" -> "speed" [] pc = "speed" -> "done"

\* the value compute assigns to the Greek named pc
fd_value(p, pc) ==
    CASE pc = "delta" -> central_diff(p, "S", fd_dS(p))
      [] pc = "gamma" -> second_diff(p, "S", fd_dS(p))
      [] pc = "theta" -> FNeg(central_diff(p, "T", fd_dT))
      [] pc = "vega"  -> FDiv(central_diff(p, "sigma", fd_dSig), 100 * SCALE)
      [] pc = "rho"   -> FDiv(central_diff(p, "r", fd_dR), 100 * SCALE)
      [] pc = "vanna" -> cross_diff(p, "S", "sigma", fd_dS(p), fd_dSig)
      [] pc = "volga" -> second_diff(p, "sigma", fd_dSig)
      [] pc = "charm" -> cross_diff(p, "S", "T", fd_dS(p), fd_dT)
      [] pc = "speed" -> third_diff(p, "S", fd_dS(p))

\* the contracts passed to the pricer while the Greek named pc is computed
fd_args(p, pc) ==
    CASE pc = "delta" -> central_args(p, "S", fd_dS(p))
      [] pc = "gamma" -> second_args(p, "S", fd_dS(p))
      [] pc = "theta" -> central_args(p, "T", fd_dT)
      [] pc = "vega"  -> central_args(p, "sigma", fd_dSig)
      [] pc = "rho"   -> central_args(p, "r", fd_dR)
      [] pc = "vanna" -> cross_args(p, "S", "sigma", fd_dS(p), fd_dSig)
      [] pc = "volga" -> second_args(p, "sigma", fd_dSig)
      [] pc = "charm" -> cross_args(p, "S", "T", fd_dS(p), fd_dT)
      [] pc = "speed" -> third_args(p, "S", fd_dS(p))

\* lines 19-24: compute is entered and prices the contract itself
compute_entry(p) ==
    [pc |-> "delta", p |-> p, base_price |-> fd_pricer(p), g |-> NoGreeks,
     calls |-> <<p>>]

\* one assignment g.<Greek> = ... of lines 28-61
compute_greek(st) ==
    [st EXCEPT !.g[st.pc] = fd_value(st.p, st.pc),
               !.calls = fd_args(st.p, st.pc),
               !.pc = fd_next(st.pc)]

(* ------------------------------------------------------------------ *)
(* calibration/implied_vol.h: ImpliedVolSolver                         *)
(* ------------------------------------------------------------------ *)

\* the default tol (1e-8) and the vega threshold (1e-12) lie below one unit:
\* |v| < 1e-8 and |v| < 1e-12 are true exactly of the values that round to 0
DefaultTol == 1
VegaEps == 1
DefaultMaxIter == 100
BisectIters == 200
\* clamp bounds of the guess and of a Newton iterate, the bisection bracket
GuessLo == 10
GuessHi == 5000
SigmaLo == 1
SigmaHi == 10000
BracketLo == 1
BracketHi == 5000

\* solve_entry with the clamp of line 23 left out
solve_entry_noclamp(a) ==
    [pc |-> "newton", a |-> a,
     sigma |-> FDiv(FMul(FSqrt(FDiv(FMul(2 * SCALE, 3142), a.T)),
                         a.market_price), a.S),
     i |-> 0, lo |-> 0, hi |-> 0, j |-> 0,
     ret |-> 0, left |-> "none", by |-> "none", raised |-> FALSE,
     divisions |-> 0, calls |-> 0, arg |-> 0]

\* the local variables of solve after the initial guess (lines 22-23);
\* solve and bisection_solve hold no throw: raised stays FALSE
solve_entry(a) ==
    [pc |-> "newton", a |-> a,
     sigma |-> FClamp(FDiv(FMul(FSqrt(FDiv(FMul(2 * SCALE, 3142), a.T)),
                                a.market_price), a.S),
                      GuessLo, GuessHi),
     i |-> 0, lo |-> 0, hi |-> 0, j |-> 0,
     ret |-> 0, left |-> "none", by |-> "none", raised |-> FALSE,
     divisions |-> 0, calls |-> 0, arg |-> 0]

\* bisection_entry with the bracket narrowed around the last Newton iterate
bisection_entry_warm(st, why) ==
    [st EXCEPT !.pc = "bisect", !.left = why,
               !.lo = FMax(BracketLo, FDiv(st.sigma, 2 * SCALE)),
               !.hi = FClamp(FMul(st.sigma, 2 * SCALE), BracketLo, BracketHi),
               !.j = 0]

\* the call of bisection_solve (line 44) and its line 54
bisection_entry(st, why) ==
    [st EXCEPT !.pc = "bisect", !.left = why,
               !.lo = BracketLo, !.hi = BracketHi, !.j = 0]

\* the contract priced at volatility sg
solve_params(a, sg) == OptionParams(a.S, a.K, a.T, a.r, sg, a.q, a.type)

\* newton_body with the vega test of line 33 left out
newton_body_novega(st) ==
    LET p == solve_params(st.a, st.sigma)
        model_price == BS_price(p).price
        vega == FMul(BS_vega(p), 100 * SCALE)
        diff == FSub(model_price, st.a.market_price)
        seen == [st EXCEPT !.calls = st.calls + 1, !.arg = st.sigma]
    IN IF FLt(FAbs(diff), st.a.tol)
       THEN [seen EXCEPT !.pc = "done", !.ret = st.sigma, !.left = "converged",
                         !.by = "newton"]
       ELSE [seen EXCEPT !.sigma = FClamp(FSub(st.sigma, FDiv(diff, vega)),
                                          SigmaLo, SigmaHi),
                         !.i = st.i + 1,
                         !.divisions = st.divisions + 1]

\* newton_body with the vega test of line 33 made before the convergence test
\* of line 32
newton_body_vega_first(st) ==
    LET p == solve_params(st.a, st.sigma)
        model_price == BS_price(p).price
        vega == FMul(BS_vega(p), 100 * SCALE)
        diff == FSub(model_price, st.a.market_price)
        seen == [st EXCEPT !.calls = st.calls + 1, !.arg = st.sigma]
    IN IF FLt(FAbs(vega), VegaEps)
       THEN bisection_entry(seen, "vega")
       ELSE IF FLt(FAbs(diff), st.a.tol)
       THEN [seen EXCEPT !.pc = "done", !.ret = st.sigma, !.left = "converged",
                         !.by = "newton"]
       ELSE [seen EXCEPT !.sigma = FClamp(FSub(st.sigma, FDiv(diff, vega)),
                                          SigmaLo, SigmaHi),
                         !.i = st.i + 1,
                         !.divisions = st.divisions + 1]

\* one pass through the body of the Newton loop (lines 26-40)
newton_body(st) ==
    LET p == solve_params(st.a, st.sigma)
        model_price == BS_price(p).price
        vega == FMul(BS_vega(p), 100 * SCALE)
        diff == FSub(model_price, st.a.market_price)
        seen == [st EXCEPT !.calls = st.calls + 1, !.arg = st.sigma]
    IN IF FLt(FAbs(diff), st.a.tol)
       THEN [seen EXCEPT !.pc = "done", !.ret = st.sigma, !.left = "converged",
                         !.by = "newton"]
       ELSE IF FLt(FAbs(vega), VegaEps)
       THEN bisection_entry(seen, "vega")
       ELSE [seen EXCEPT !.sigma = FClamp(FSub(st.sigma, FDiv(diff, vega)),
                                          SigmaLo, SigmaHi),
                         !.i = st.i + 1,
                         !.divisions = st.divisions + 1]

\* bisection_body with the endpoints of lines 63-67 exchanged
bisection_body_swapped(st) ==
    LET mid == FDiv(FAdd(st.lo, st.hi), 2 * SCALE)
        p == solve_params(st.a, mid)
        model_price == BS_price(p).price
        seen == [st EXCEPT !.calls = st.calls + 1, !.arg = mid]
    IN IF FLt(FAbs(FSub(model_price, st.a.market_price)), st.a.tol)
       THEN [seen EXCEPT !.pc = "done", !.ret = mid, !.by = "bisection"]
       ELSE IF FGt(model_price, st.a.market_price)
       THEN [seen EXCEPT !.lo = mid, !.j = st.j + 1]
       ELSE [seen EXCEPT !.hi = mid, !.j = st.j + 1]

\* one pass through the body of the bisection loop (lines 57-67)
bisection_body(st) ==
    LET mid == FDiv(FAdd(st.lo, st.hi), 2 * SCALE)
        p == solve_params(st.a, mid)
        model_price == BS_price(p).price
        seen == [st EXCEPT !.calls = st.calls + 1, !.arg = mid]
    IN IF FLt(FAbs(FSub(model_price, st.a.market_price)), st.a.tol)
       THEN [seen EXCEPT !.pc = "done", !.ret = mid, !.by = "bisection"]
       ELSE IF FGt(model_price, st.a.market_price)
       THEN [seen EXCEPT !.hi = mid, !.j = st.j + 1]
       ELSE [seen EXCEPT !.lo = mid, !.j = st.j + 1]

\* bisection_exit failing on non-convergence instead of returning
bisection_exit_throws(st) ==
    [st EXCEPT !.pc = "done", !.raised = TRUE, !.by = "best_estimate"]

\* line 70: the budget is spent, the midpoint is the best estimate
bisection_exit(st) ==
    [st EXCEPT !.pc = "done", !.ret = FDiv(FAdd(st.lo, st.hi), 2 * SCALE),
               !.by = "best_estimate"]

\* bisection_cond off by one: i <= 200
bisection_cond_le(st) == st.j <= BisectIters

\* the loop conditions of lines 25 and 56
newton_cond(st) == st.i < st.a.max_iter

bisection_cond(st) == st.j < BisectIters

\* one step of solve from a state that is not final
solve_step(st) ==
    IF st.pc = "newton"
    THEN (IF newton_cond(st) THEN newton_body(st)
          ELSE bisection_entry(st, "budget"))
    ELSE (IF bisection_cond(st) THEN bisection_body(st) ELSE bisection_exit(st))

\* n steps of solve, or fewer when the return is reached earlier
RECURSIVE solve_steps(_, _)
solve_steps(st, n) ==
    IF st.pc = "done" \/ n = 0 THEN st
    ELSE IF n = 1 THEN solve_step(st)
    ELSE LET half == solve_steps(st, n \div 2)
         IN  solve_steps(half, n - (n \div 2))

\* ImpliedVolSolver::solve as a function: the value returned once both loops
\* have run, which takes at most max_iter + 200 iterations and two exits
solve_run(st) == solve_steps(st, st.a.max_iter + BisectIters + 2).ret

solve(market_price, S, K, T, r, q, type, tol, max_iter) ==
    solve_run(solve_entry([market_price |-> market_price, S |-> S, K |-> K,
                           T |-> T, r |-> r, q |-> q, type |-> type,
                           tol |-> tol, max_iter |-> max_iter]))

(* ---- the inputs of the solver specification ---- *)

\* market prices k * k (k = 0 .. MaxPriceIdx), and a NaN
MaxPriceIdx == 4
\* Newton budgets 0 .. MaxSmallIter besides the default of 100
MaxSmallIter == 0

SolvePrices == {k * k * SCALE : k \in 0..MaxPriceIdx} \cup {NaN}
SolveContracts ==
    {[S |-> 100000, K |-> 110000, T |-> 1000, r |-> 50, q |-> 0, type |-> "CALL"],
     [S |-> 100000, K |-> 90000, T |-> 1000, r |-> 50, q |-> 0, type |-> "PUT"],
     [S |-> 100000, K |-> 150000, T |-> 250, r |-> 50, q |-> 0, type |-> "CALL"],
     [S |-> 100000, K |-> 100000, T |-> 0, r |-> 50, q |-> 0, type |-> "CALL"]}
SolveArgs ==
    {[market_price |-> m, S |-> c.S, K |-> c.K, T |-> c.T, r |-> c.r, q |-> c.q,
      type |-> c.type, tol |-> t, max_iter |-> n] :
        m \in SolvePrices, c \in SolveContracts, t \in {DefaultTol, 50},
        n \in (0..MaxSmallIter) \cup {DefaultMaxIter}}

SolverIdle ==
    [pc |-> "idle", a |-> [market_price |-> 0, S |-> 0, K |-> 0, T |-> 0, r |-> 0,
                           q |-> 0, type |-> "CALL", tol |-> 0, max_iter |-> 0],
     sigma |-> 0, i |-> 0, lo |-> 0, hi |-> 0, j |-> 0, ret |-> 0,
     left |-> "none", by |-> "none", raised |-> FALSE, divisions |-> 0,
     calls |-> 0, arg |-> 0]

\* every component before any call
Init ==
    /\ solver = SolverIdle /\ bs = BsIdle /\ tree = TreeIdle
    /\ fd = FdIdle /\ cal = CalIdle /\ mc = McIdle /\ risk = RiskIdle
    /\ pf = PfIdle /\ wf = WfIdle /\ rg = RgIdle

(* ---- the solver, step by step ---- *)

\* a caller enters solve
solve_call ==
    /\ solver.pc = "idle"
    /\ \E a \in SolveArgs : solver' = solve_entry(a)
    /\ UNCHANGED nonSolver

\* line 25 holds: one Newton iteration
NewtonIter ==
    /\ solver.pc = "newton"
    /\ newton_cond(solver)
    /\ solver' = newton_body(solver)
    /\ UNCHANGED nonSolver

\* line 25 fails: the Newton budget is spent
NewtonBudget ==
    /\ solver.pc = "newton"
    /\ ~newton_cond(solver)
    /\ solver' = bisection_entry(solver, "budget")
    /\ UNCHANGED nonSolver

\* line 56 holds: one bisection iteration
BisectIter ==
    /\ solver.pc = "bisect"
    /\ bisection_cond(solver)
    /\ solver' = bisection_body(solver)
    /\ UNCHANGED nonSolver

\* line 56 fails: return the midpoint
BisectBudget ==
    /\ solver.pc = "bisect"
    /\ ~bisection_cond(solver)
    /\ solver' = bisection_exit(solver)
    /\ UNCHANGED nonSolver

NextSolve == solve_call \/ NewtonIter \/ NewtonBudget \/ BisectIter \/ BisectBudget

SpecSolve == Init /\ [][NextSolve]_vars

(* ---- claims about ImpliedVolSolver ---- *)

SolverDone == solver.pc = "done"

\* the number of steps solve can still take: the Newton iterations left, the
\* exit of the Newton loop, the bisection iterations left, the final return
SolveRank(st) ==
    IF st.pc = "newton" THEN (st.a.max_iter - st.i) + 1 + BisectIters + 1
    ELSE IF st.pc = "bisect" THEN (BisectIters - st.j) + 1
    ELSE 0

\* C1: solve terminates for every input: at most max_iter Newton iterations,
\* then at most 200 bisection iterations (so at most max_iter + 200 pricer
\* evaluations); every step of a running activation lowers the number of
\* steps left, which is 0 only at the return.
C1_SolveTerminates ==
    /\ [](/\ solver.i <= solver.a.max_iter
          /\ solver.j <= BisectIters
          /\ solver.calls <= solver.a.max_iter + BisectIters
          /\ SolveRank(solver) >= 0
          /\ (SolveRank(solver) = 0) = (solver.pc \in {"idle", "done"}))
    /\ [][solver.pc \in {"newton", "bisect"} =>
            SolveRank(solver') < SolveRank(solver)]_vars

\* both budgets were spent to the last iteration before the return
C1_Witness ==
    /\ SolverDone
    /\ solver.a.max_iter = DefaultMaxIter
    /\ solver.i = DefaultMaxIter
    /\ solver.j = BisectIters

\* C2: on every return path and for every input (a NaN price, T = 0 included)
\* the volatility returned lies in [0.001, 10.0].
C2_ReturnInRange ==
    SolverDone => (FGe(solver.ret, SigmaLo) /\ FLe(solver.ret, SigmaHi))

\* a return from the Newton loop for a price that is zero, where the
\* unclamped Brenner-Subrahmanyam guess is 0
C2_Witness ==
    /\ SolverDone
    /\ solver.by = "newton"
    /\ solver.a.market_price = 0
    /\ solver.ret = GuessLo

\* C5: when neither loop reaches the tolerance nothing is raised and the value
\* returned is the midpoint of the final bisection bracket.
C5_NonConvergenceReturnsMidpoint ==
    (SolverDone /\ solver.by = "best_estimate") =>
        /\ ~solver.raised
        /\ solver.j = BisectIters
        /\ solver.ret = FDiv(FAdd(solver.lo, solver.hi), 2 * SCALE)
        /\ FLe(solver.lo, solver.ret) /\ FLe(solver.ret, solver.hi)

\* the Newton budget of 100 and the bisection budget were both spent on a
\* finite price of a valid contract
C5_Witness ==
    /\ SolverDone
    /\ solver.by = "best_estimate"
    /\ solver.left = "budget"
    /\ solver.i = DefaultMaxIter
    /\ IsFinite(solver.a.market_price)
    /\ solver.a.T > 0

\* the state of line 33 in which the vega test is true: the price is not
\* within tolerance and |vega| is below the threshold
VegaTooSmall ==
    /\ solver.pc = "newton"
    /\ newton_cond(solver)
    /\ LET p == solve_params(solver.a, solver.sigma)
       IN /\ ~FLt(FAbs(FSub(BS_price(p).price, solver.a.market_price)), solver.a.tol)
          /\ FLt(FAbs(FMul(BS_vega(p), 100 * SCALE)), VegaEps)

\* C6: when the price is not within tolerance and |vega| is below the
\* threshold, the Newton loop stops without dividing by vega and without
\* moving sigma, bisection starts from its bracket, the value returned comes
\* from a return of bisection_solve, and nothing is raised.
C6_VegaFallback ==
    /\ [][VegaTooSmall =>
            /\ solver'.pc = "bisect"
            /\ solver'.left = "vega"
            /\ solver'.divisions = solver.divisions
            /\ solver'.sigma = solver.sigma
            /\ solver'.lo = BracketLo /\ solver'.hi = BracketHi /\ solver'.j = 0]_vars
    /\ [](solver.left = "vega" =>
            /\ solver.pc \in {"bisect", "done"}
            /\ ~solver.raised
            /\ SolverDone => solver.by \in {"bisection", "best_estimate"})

\* a return after the Newton loop was left by the vega test
C6_Witness == SolverDone /\ solver.left = "vega"

(* ------------------------------------------------------------------ *)
(* The analytic pricer called directly                                 *)
(* ------------------------------------------------------------------ *)

\* expiries k * 0.5 and volatilities k * 0.2 from k = -1 on; spot and strike
\* 0 or 100
MaxTIdx == 2
MaxSigIdx == 2

PriceContracts ==
    {OptionParams(S, K, T * 500, 50, sg * 200, 0, ty) :
        S \in {0, 100000}, K \in {0, 100000}, T \in -1..MaxTIdx,
        sg \in -1..MaxSigIdx, ty \in OptionType}

BS_ops == {"price", "delta", "gamma", "theta", "vega", "rho", "vanna", "volga"}

\* a caller calls BlackScholes::price or one of the closed-form Greeks
bs_call ==
    /\ bs.op = "none"
    /\ \E op \in BS_ops, p \in PriceContracts : bs' = BS_outcome(op, p)
    /\ UNCHANGED nonBs

NextPrice == bs_call

SpecPrice == Init /\ [][NextPrice]_vars

\* S, K, T, sigma > 0
PositiveParams(p) == FGt(p.S, 0) /\ FGt(p.K, 0) /\ FGt(p.T, 0) /\ FGt(p.sigma, 0)

\* C3: a contract with non-positive S, K, T or sigma is rejected with
\* InvalidParameter by BlackScholes::price and by the closed-form Greeks
\* instead of being priced.
C3_RejectsInvalid ==
    (bs.op # "none" /\ ~PositiveParams(bs.p)) => bs.kind = "InvalidParameter"

(* ------------------------------------------------------------------ *)
(* The lattice pricer called directly                                  *)
(* ------------------------------------------------------------------ *)

\* step counts 1 .. MaxTreeSteps
MaxTreeSteps == 3

TreeContracts ==
    {[OptionParams(100000, 100000, 1000, r, sg, 0, ty) EXCEPT !.style = st] :
        r \in {0, 50, 100}, sg \in {50, 200, 400}, ty \in OptionType,
        st \in ExerciseStyle}

\* a caller calls BinomialTree::price
tree_call ==
    /\ ~tree.called
    /\ \E p \in TreeContracts, steps \in 1..MaxTreeSteps : tree' = tree_outcome(p, steps)
    /\ UNCHANGED nonTree

NextTree == tree_call

SpecTree == Init /\ [][NextTree]_vars

\* 0 < prob < 1
StableProb(prob) == FGt(prob, 0) /\ FLt(prob, SCALE)

\* C4: when the risk-neutral probability is not inside (0, 1),
\* BinomialTree::price reports UnstableDiscretization instead of returning a
\* price.
C4_ReportsUnstable ==
    (tree.called /\ ~StableProb(tree.prob)) => tree.kind = "UnstableDiscretization"

(* ------------------------------------------------------------------ *)
(* FiniteDifferenceGreeks::compute, one Greek at a time                *)
(* ------------------------------------------------------------------ *)

\* expiries of 0.002 (under a day) and k * 0.5, volatilities 0.01 and k * 0.2,
\* and a contract of expiry 0.01 at volatility 4.0, whose theta is large
MaxFdIdx == 2

FdContracts ==
    {OptionParams(100000, 100000, T, 50, sg, 0, ty) :
        T \in {2} \cup {k * 500 : k \in 1..MaxFdIdx},
        sg \in {10} \cup {k * 200 : k \in 1..MaxFdIdx},
        ty \in OptionType}
    \cup {OptionParams(100000, 100000, 10, 50, 4000, 0, ty) : ty \in OptionType}

\* a caller calls compute with the default pricer
compute_call ==
    /\ fd.pc = "idle"
    /\ \E p \in FdContracts : fd' = compute_entry(p)
    /\ UNCHANGED nonFd

\* compute fills the next Greek
FdGreek ==
    /\ fd.pc \notin {"idle", "done"}
    /\ fd' = compute_greek(fd)
    /\ UNCHANGED nonFd

NextFd == compute_call \/ FdGreek

SpecFd == Init /\ [][NextFd]_vars

\* C7: whenever the caller's contract has S, K, T, sigma > 0, every contract
\* that compute passes to the pricer has S, K, T, sigma > 0.
C7_PricerArgsPositive ==
    PositiveParams(fd.p) =>
        \A k \in 1..Len(fd.calls) : PositiveParams(fd.calls[k])

(* ------------------------------------------------------------------ *)
(* calibration/vol_surface.h                                           *)
(* ------------------------------------------------------------------ *)

MarketQuote(strike, expiry, market_price, type) ==
    [strike |-> strike, expiry |-> expiry, market_price |-> market_price,
     type |-> type]

VolSurfacePoint(strike, expiry, implied_vol, market_price, model_price, error) ==
    [strike |-> strike, expiry |-> expiry, implied_vol |-> implied_vol,
     market_price |-> market_price, model_price |-> model_price,
     error |-> error]

\* lines 51-54 with strike and expiry exchanged in the initializer list
surface_point_swapped(q, iv, model_price) ==
    VolSurfacePoint(q.expiry, q.strike, iv, q.market_price, model_price,
                    FAbs(FSub(model_price, q.market_price)))

\* lines 51-54 with implied_vol and market_price exchanged in the initializer list
surface_point_vol_price(q, iv, model_price) ==
    VolSurfacePoint(q.strike, q.expiry, q.market_price, iv, model_price,
                    FAbs(FSub(model_price, q.market_price)))

\* lines 49-54: the error and the point of quote q
surface_point(q, iv, model_price) ==
    VolSurfacePoint(q.strike, q.expiry, iv, q.market_price, model_price,
                    FAbs(FSub(model_price, q.market_price)))

\* lines 47-54: the re-priced point, given the implied volatility
fit_with(q, spot, rate, div_yield, iv) ==
    surface_point(q, iv,
        BS_price(OptionParams(spot, q.strike, q.expiry, rate, iv, div_yield,
                              q.type)).price)

\* lines 43-54: the point fitted to one quote
fit_quote(q, spot, rate, div_yield) ==
    fit_with(q, spot, rate, div_yield,
        solve(q.market_price, spot, q.strike, q.expiry, rate, div_yield,
              q.type, DefaultTol, DefaultMaxIter))

\* lines 34-39: the result is sized to the quotes and the team is started.
\* solve and price read nothing but their arguments, so the point of quote i
\* is a function of quotes[i], spot, rate and div_yield alone: it is
\* evaluated once here and taken from `fit` by the worker that runs
\* iteration i.
calibrate_entry(quotes, spot, rate, div_yield) ==
    [CalIdle EXCEPT
        !.pc = "parallel", !.quotes = quotes, !.spot = spot, !.rate = rate,
        !.div_yield = div_yield,
        !.fit = [i \in 1..Len(quotes) |->
                    fit_quote(quotes[i], spot, rate, div_yield)],
        !.surface = [i \in 1..Len(quotes) |-> NoPoint],
        !.writes = [i \in 1..Len(quotes) |-> 0],
        !.next = 1]

\* line 40 under schedule(dynamic): a free worker takes the next iteration
cal_grab(c, w) ==
    [c EXCEPT !.wk[w] = [pc |-> "has", it |-> c.next, pt |-> NoPoint],
              !.next = c.next + 1]

\* lines 41-49: the worker reads its quote and fits the point
cal_fit(c, w) ==
    LET i == c.wk[w].it
    IN  [c EXCEPT !.wk[w] = [pc |-> "fitted", it |-> i, pt |-> c.fit[i]],
                  !.log = @ \cup {[w |-> w, it |-> i, obj |-> "quotes",
                                   idx |-> i, kind |-> "read"]}]

\* lines 51-54 writing slot 0 whatever the iteration
store_point_first(c, w) ==
    LET i == c.wk[w].it
    IN  [c EXCEPT !.surface[1] = c.wk[w].pt,
                  !.writes[1] = @ + 1,
                  !.log = @ \cup {[w |-> w, it |-> i, obj |-> "surface",
                                   idx |-> 1, kind |-> "write"]},
                  !.wk[w] = [pc |-> "free", it |-> 0, pt |-> NoPoint]]

\* lines 51-54: the worker writes the point to the slot of its iteration
store_point(c, w) ==
    LET i == c.wk[w].it
    IN  [c EXCEPT !.surface[i] = c.wk[w].pt,
                  !.writes[i] = @ + 1,
                  !.log = @ \cup {[w |-> w, it |-> i, obj |-> "surface",
                                   idx |-> i, kind |-> "write"]},
                  !.wk[w] = [pc |-> "free", it |-> 0, pt |-> NoPoint]]

\* lines 59-62: the serial loop over the surface, from point k on
RECURSIVE reduce_stats(_, _, _)
reduce_stats(surface, k, acc) ==
    IF k > Len(surface) THEN acc
    ELSE reduce_stats(surface, k + 1,
            [sse |-> FAdd(acc.sse, FMul(surface[k].error, surface[k].error)),
             max_error |-> FMax(acc.max_error, surface[k].error)])

\* lines 55-69: the workers have joined; the statistics and the count
calibrate_reduce(c) ==
    LET acc == reduce_stats(c.surface, 1, [sse |-> 0, max_error |-> c.max_error])
    IN  [c EXCEPT !.pc = "done", !.joined = TRUE, !.sse = acc.sse,
                  !.max_error = acc.max_error,
                  !.total_rmse = FSqrt(FDiv(acc.sse, Len(c.surface) * SCALE)),
                  !.iterations = Len(c.quotes)]

(* ---- the inputs of the calibration specification ---- *)

\* quote lists of length 0 .. MaxQuotes
MaxQuotes == 3

CalQuotes ==
    {MarketQuote(110 * SCALE, SCALE, 9 * SCALE, "CALL"),
     MarketQuote(90 * SCALE, SCALE, 4 * SCALE, "PUT")}

\* two quotes in turn, starting with a
QuoteTape(a, b) == [i \in 1..MaxQuotes |-> IF i % 2 = 1 THEN a ELSE b]

QuoteLists ==
    {SubSeq(QuoteTape(ab[1], ab[2]), 1, n) :
        ab \in {pr \in CalQuotes \X CalQuotes : pr[1] # pr[2]},
        n \in 0..MaxQuotes}

(* ---- calibrate, step by step ---- *)

\* a caller enters calibrate
calibrate_call ==
    /\ cal.pc = "idle"
    /\ \E qs \in QuoteLists :
          cal' = calibrate_entry(qs, 100 * SCALE, 50, 0)
    /\ UNCHANGED nonCal

\* the runtime hands the next iteration to a free worker
CalGrab(w) ==
    /\ cal.pc = "parallel"
    /\ cal.wk[w].pc = "free"
    /\ cal.next <= Len(cal.quotes)
    /\ cal' = cal_grab(cal, w)
    /\ UNCHANGED nonCal

CalFit(w) ==
    /\ cal.pc = "parallel"
    /\ cal.wk[w].pc = "has"
    /\ cal' = cal_fit(cal, w)
    /\ UNCHANGED nonCal

CalStore(w) ==
    /\ cal.pc = "parallel"
    /\ cal.wk[w].pc = "fitted"
    /\ cal' = store_point(cal, w)
    /\ UNCHANGED nonCal

\* the barrier at the end of the loop, then the serial tail
CalReduce ==
    /\ cal.pc = "parallel"
    /\ cal.next > Len(cal.quotes)
    /\ \A w \in Workers : cal.wk[w].pc = "free"
    /\ cal' = calibrate_reduce(cal)
    /\ UNCHANGED nonCal

NextCal ==
    \/ calibrate_call
    \/ \E w \in Workers : CalGrab(w)
    \/ \E w \in Workers : CalFit(w)
    \/ \E w \in Workers : CalStore(w)
    \/ CalReduce

SpecCal == Init /\ [][NextCal]_vars

(* ---- claims about calibrate ---- *)

CalDone == cal.pc = "done"

\* C8: calibrate returns one point per input quote in the input order:
\* surface[i] carries the strike, expiry and market price of quotes[i], and
\* the reported count is the number of quotes.
C8_OnePointPerQuote ==
    CalDone =>
        /\ Len(cal.surface) = Len(cal.quotes)
        /\ cal.iterations = Len(cal.quotes)
        /\ \A i \in 1..Len(cal.quotes) :
              /\ cal.surface[i].strike = cal.quotes[i].strike
              /\ cal.surface[i].expiry = cal.quotes[i].expiry
              /\ cal.surface[i].market_price = cal.quotes[i].market_price

\* a returned surface of three quotes that are not all the same, fitted by
\* more than one worker
C8_Witness ==
    /\ CalDone
    /\ Len(cal.quotes) = 3
    /\ cal.quotes[1] # cal.quotes[2]
    /\ cal.quotes[3] = cal.quotes[1]
    /\ \E e1, e2 \in cal.log : e1.w # e2.w

\* C9: in the parallel phase, under every assignment of quotes to workers and
\* every interleaving, each slot surface[i] is written at most once, and
\* exactly once when the workers have joined, by the worker that runs
\* iteration i; a worker touches nothing shared but quotes[i], which it
\* reads, and surface[i], which it writes.
C9_OwnSlotOnly ==
    /\ \A e \in cal.log :
          /\ e.idx = e.it
          /\ \/ e.obj = "quotes" /\ e.kind = "read"
             \/ e.obj = "surface" /\ e.kind = "write"
    /\ \A e1, e2 \in cal.log : e1.it = e2.it => e1.w = e2.w
    /\ \A i \in 1..Len(cal.writes) : cal.writes[i] <= 1
    /\ cal.joined => \A i \in 1..Len(cal.writes) : cal.writes[i] = 1
    /\ \A w \in Workers :
          cal.wk[w].pc # "free" =>
              /\ cal.wk[w].it \in 1..Len(cal.quotes)
              /\ cal.writes[cal.wk[w].it] = 0
              /\ \A v \in Workers \ {w} : cal.wk[v].it # cal.wk[w].it

\* every worker holds a fitted point of its own while another slot has
\* already been written
C9_Witness ==
    /\ cal.pc = "parallel"
    /\ \A w \in Workers : cal.wk[w].pc = "fitted"
    /\ \E i \in 1..Len(cal.writes) : cal.writes[i] = 1

(* ------------------------------------------------------------------ *)
(* utils/random_gen.h                                                  *)
(* ------------------------------------------------------------------ *)

\* std::mt19937_64 and the distributions drawing from it are deterministic:
\* the k-th draw of a generator is a function of its seed and of k.  The
\* function below stands for that sequence; the values a standard normal
\* draw can take here are those of NormalDraws.
NormalDraws == <<-1500, -700, -200, 0, 300, 900, 1600>>

mt_output(seed, k) == seed * 31 + k * 17

\* the k-th value of dist(rng), k = 1, 2, ...
normal_draw(seed, k) == NormalDraws[(mt_output(seed, k) % Len(NormalDraws)) + 1]

\* the k-th value of unif(rng), in [0, 1)
uniform_draw(seed, k) == (mt_output(seed, k) * 137) % SCALE

\* lines 13-19
generate_normals(n, seed) == [i \in 1..n |-> normal_draw(seed, i)]

\* generate_antithetic with a draw of its own for the second sample of a pair
generate_antithetic_fresh(n, seed) ==
    [i \in 1..n |-> IF i % 2 = 1 THEN normal_draw(seed, i) ELSE FNeg(normal_draw(seed, i))]

\* lines 22-34; samples[2 * i] of the code is entry 2 * i + 1 here
generate_antithetic(n, seed) ==
    LET half == n \div 2
    IN  [i \in 1..n |->
            IF i <= 2 * half
            THEN (IF i % 2 = 1 THEN normal_draw(seed, (i + 1) \div 2)
                  ELSE FNeg(normal_draw(seed, i \div 2)))
            ELSE normal_draw(seed, half + 1)]

\* line 42: the uniform value of sample i - 1 of the code
stratified_u(n, seed, i) ==
    FDiv(FAdd((i - 1) * SCALE, uniform_draw(seed, i)), n * SCALE)

\* lines 37-46
generate_stratified(n, seed) ==
    [i \in 1..n |-> norm_inv(stratified_u(n, seed, i))]

(* ------------------------------------------------------------------ *)
(* monte_carlo/mc_engine.h                                             *)
(* ------------------------------------------------------------------ *)

VarianceReduction == {"NONE", "ANTITHETIC", "STRATIFIED", "CONTROL_VARIATE"}

\* schedule(static) without a chunk size: the iterations are cut into
\* contiguous chunks, at most one per thread, handed out in thread order.
\* cuts[t] is the last iteration of thread t; the sizes are the runtime's
\* choice, and a chunk may be empty.
StaticCuts(n) ==
    {c \in [0..NumThreads -> 0..n] :
        /\ c[0] = 0
        /\ c[NumThreads] = n
        /\ \A t \in Threads : c[t - 1] <= c[t]}

\* chunks that share their boundary iteration
static_chunk_overlap(c, t) ==
    [lo |-> c[t - 1] + 1,
     hi |-> IF c[t] < c[NumThreads] THEN c[t] + 1 ELSE c[t]]

static_chunk(c, t) == [lo |-> c[t - 1] + 1, hi |-> c[t]]

static_schedule(c) == [t \in Threads |-> static_chunk(c, t)]

ChunkIdx(ch) == ch.lo .. ch.hi

\* lines 28-46 and 49: the locals, the draws and the chunks of the first loop
price_entry(p, num_paths, vr, seed, c) ==
    LET dt == p.T
        part == static_schedule(c)
    IN  [McIdle EXCEPT
            !.pc = "paths", !.fn = "price", !.p = p, !.num_paths = num_paths,
            !.vr = vr, !.seed = seed,
            !.drift = FMul(FSub(FSub(p.r, p.q),
                                FMul(FMul(500, p.sigma), p.sigma)), dt),
            !.vol_sqrt_dt = FMul(p.sigma, FSqrt(dt)),
            !.df = FExp(FMul(FNeg(p.r), p.T)),
            !.z = CASE vr = "ANTITHETIC" -> generate_antithetic(num_paths, seed)
                    [] vr = "STRATIFIED" -> generate_stratified(num_paths, seed)
                    [] OTHER -> generate_normals(num_paths, seed),
            !.payoffs = [i \in 1..num_paths |-> 0],
            !.writes = [i \in 1..num_paths |-> 0],
            !.part = part,
            !.cur = [t \in Threads |-> part[t].lo]]

\* lines 130-143 with every thread's generator seeded with the base seed
multistep_entry_one_seed(p, num_paths, num_steps, seed, c) ==
    LET dt == FDiv(p.T, num_steps * SCALE)
        part == static_schedule(c)
    IN  [McIdle EXCEPT
            !.pc = "paths", !.fn = "price_multistep", !.p = p,
            !.num_paths = num_paths, !.num_steps = num_steps, !.seed = seed,
            !.drift = FMul(FSub(FSub(p.r, p.q),
                                FMul(FMul(500, p.sigma), p.sigma)), dt),
            !.vol_sqrt_dt = FMul(p.sigma, FSqrt(dt)),
            !.df = FExp(FMul(FNeg(p.r), p.T)),
            !.payoffs = [i \in 1..num_paths |-> 0],
            !.writes = [i \in 1..num_paths |-> 0],
            !.part = part,
            !.cur = [t \in Threads |-> part[t].lo],
            !.rng = [t \in Threads |->
                        [seed |-> seed, pos |-> 0]]]

\* lines 130-143: the locals, each thread's generator and the chunks
multistep_entry(p, num_paths, num_steps, seed, c) ==
    LET dt == FDiv(p.T, num_steps * SCALE)
        part == static_schedule(c)
    IN  [McIdle EXCEPT
            !.pc = "paths", !.fn = "price_multistep", !.p = p,
            !.num_paths = num_paths, !.num_steps = num_steps, !.seed = seed,
            !.drift = FMul(FSub(FSub(p.r, p.q),
                                FMul(FMul(500, p.sigma), p.sigma)), dt),
            !.vol_sqrt_dt = FMul(p.sigma, FSqrt(dt)),
            !.df = FExp(FMul(FNeg(p.r), p.T)),
            !.payoffs = [i \in 1..num_paths |-> 0],
            !.writes = [i \in 1..num_paths |-> 0],
            !.part = part,
            !.cur = [t \in Threads |-> part[t].lo],
            !.rng = [t \in Threads |->
                        [seed |-> seed + (t - 1) * 1000, pos |-> 0]]]

\* lines 51 and 66: the terminal price of path i
path_terminal(st, i) ==
    FMul(st.p.S, FExp(FAdd(st.drift, FMul(st.vol_sqrt_dt, st.z[i]))))

\* lines 146-149: steps k .. num_steps - 1 of one path, drawing from the
\* generator of the thread
RECURSIVE path_walk(_, _, _, _)
path_walk(st, g, S, k) ==
    IF k >= st.num_steps THEN S
    ELSE path_walk(st, g,
            FMul(S, FExp(FAdd(st.drift,
                    FMul(st.vol_sqrt_dt, normal_draw(g.seed, g.pos + k + 1))))),
            k + 1)

\* lines 50-53 with the draw taken from a generator of the thread instead of
\* z[i]
mc_path_own_draw(st, t) ==
    LET i == st.cur[t]
        zt == normal_draw(st.seed + (t - 1) * 1000, i - st.part[t].lo + 1)
        ST == IF st.fn = "price"
              THEN FMul(st.p.S, FExp(FAdd(st.drift, FMul(st.vol_sqrt_dt, zt))))
              ELSE path_walk(st, st.rng[t], st.p.S, 0)
    IN  [st EXCEPT
            !.payoffs[i] = intrinsic_value(ST, st.p.K, st.p.type),
            !.writes[i] = @ + 1,
            !.log = @ \cup {[t |-> t, arr |-> "payoffs", idx |-> i]},
            !.cur[t] = i + 1,
            !.rng[t].pos = IF st.fn = "price" THEN @ ELSE @ + st.num_steps]

\* lines 50-53 and 144-151: thread t runs the next iteration of its chunk
mc_path(st, t) ==
    LET i == st.cur[t]
        ST == IF st.fn = "price" THEN path_terminal(st, i)
              ELSE path_walk(st, st.rng[t], st.p.S, 0)
    IN  [st EXCEPT
            !.payoffs[i] = intrinsic_value(ST, st.p.K, st.p.type),
            !.writes[i] = @ + 1,
            !.log = @ \cup {[t |-> t, arr |-> "payoffs", idx |-> i]},
            !.cur[t] = i + 1,
            !.rng[t].pos = IF st.fn = "price" THEN @ ELSE @ + st.num_steps]

\* lines 61-64: the chunks of the second loop
terminals_entry(st, c) ==
    LET tpart == static_schedule(c)
    IN  [st EXCEPT !.pc = "terminals",
                   !.terminals = [i \in 1..st.num_paths |-> 0],
                   !.tpart = tpart,
                   !.cur = [t \in Threads |-> tpart[t].lo]]

\* lines 65-67
mc_terminal(st, t) ==
    LET i == st.cur[t]
    IN  [st EXCEPT
            !.terminals[i] = path_terminal(st, i),
            !.log = @ \cup {[t |-> t, arr |-> "terminals", idx |-> i]},
            !.cur[t] = i + 1]

\* std::accumulate(xs.begin(), xs.end(), 0.0), from entry k on
RECURSIVE accumulate(_, _, _)
accumulate(xs, k, acc) ==
    IF k > Len(xs) THEN acc ELSE accumulate(xs, k + 1, FAdd(acc, xs[k]))

\* lines 93, 102 and 159: var += (x - mean) * (x - mean)
RECURSIVE sum_sq_dev(_, _, _, _)
sum_sq_dev(xs, mean, k, acc) ==
    IF k > Len(xs) THEN acc
    ELSE sum_sq_dev(xs, mean, k + 1,
            FAdd(acc, FMul(FSub(xs[k], mean), FSub(xs[k], mean))))

\* lines 73-79
RECURSIVE cov_loop(_, _, _, _, _, _)
cov_loop(terminals, payoffs, mean_terminal, mean_payoff, k, acc) ==
    IF k > Len(payoffs) THEN acc
    ELSE LET dc == FSub(terminals[k], mean_terminal)
             dp == FSub(payoffs[k], mean_payoff)
         IN  cov_loop(terminals, payoffs, mean_terminal, mean_payoff, k + 1,
                [cov |-> FAdd(acc.cov, FMul(dc, dp)),
                 var_control |-> FAdd(acc.var_control, FMul(dc, dc))])

\* lines 97-104 and 154-161: mean and standard error of xs
mean_and_error(xs, n, df) ==
    LET sum == accumulate(xs, 1, 0)
        mean == FDiv(sum, n * SCALE)
        var == FDiv(sum_sq_dev(xs, mean, 1, 0), (n - 1) * SCALE)
    IN  [price_est |-> FMul(df, mean),
         std_err |-> FMul(df, FSqrt(FDiv(var, n * SCALE)))]

\* lines 59-95: the control variate adjustment
control_variate(st) ==
    LET n == st.num_paths
        fwd == FMul(st.p.S, FExp(FMul(FSub(st.p.r, st.p.q), st.p.T)))
        mean_terminal == FDiv(accumulate(st.terminals, 1, 0), n * SCALE)
        mean_payoff == FDiv(accumulate(st.payoffs, 1, 0), n * SCALE)
        cv == cov_loop(st.terminals, st.payoffs, mean_terminal, mean_payoff, 1,
                       [cov |-> 0, var_control |-> 0])
        beta == IF FGt(cv.var_control, 0) THEN FDiv(cv.cov, cv.var_control)
                ELSE 0
        adjusted == [i \in 1..n |->
                        FSub(st.payoffs[i],
                             FMul(beta, FSub(st.terminals[i], fwd)))]
    IN  mean_and_error(adjusted, n, st.df)

\* lines 55-118 and 154-167: the threads have joined; the serial reduction
mc_reduce(st) ==
    LET est == IF st.fn = "price" /\ st.vr = "CONTROL_VARIATE"
               THEN control_variate(st)
               ELSE mean_and_error(st.payoffs, st.num_paths, st.df)
    IN  [st EXCEPT !.pc = "done", !.joined = TRUE,
                   !.price = FMax(est.price_est, 0),
                   !.std_error = est.std_err,
                   !.paths = st.num_paths]

(* ---- the inputs of the Monte Carlo specification ---- *)

\* path counts 0 .. MaxPaths, step counts 1 .. MaxSteps
MaxPaths == 3
MaxSteps == 2

McContracts ==
    {OptionParams(10 * SCALE, 10 * SCALE, SCALE, 50, 200, 0, ty) :
        ty \in OptionType}

McSeeds == {42, 7}

(* ---- the engine, step by step ---- *)

\* a barrier that lets the first finished thread through
McFinished_any(chunks) == \E t \in Threads : mc.cur[t] > chunks[t].hi

McFinished(chunks) == \A t \in Threads : mc.cur[t] > chunks[t].hi

\* a caller enters price
price_call ==
    /\ mc.pc = "idle"
    /\ \E p \in McContracts, n \in 0..MaxPaths, vr \in VarianceReduction,
          seed \in McSeeds :
          \E c \in StaticCuts(n) : mc' = price_entry(p, n, vr, seed, c)
    /\ UNCHANGED nonMc

\* a caller enters price_multistep
multistep_call ==
    /\ mc.pc = "idle"
    /\ \E p \in McContracts, n \in 0..MaxPaths, k \in 1..MaxSteps,
          seed \in McSeeds :
          \E c \in StaticCuts(n) : mc' = multistep_entry(p, n, k, seed, c)
    /\ UNCHANGED nonMc

McPath(t) ==
    /\ mc.pc = "paths"
    /\ mc.cur[t] <= mc.part[t].hi
    /\ mc' = mc_path(mc, t)
    /\ UNCHANGED nonMc

\* the barrier of the first loop, then the second loop starts
McForkTerminals ==
    /\ mc.pc = "paths"
    /\ mc.fn = "price" /\ mc.vr = "CONTROL_VARIATE"
    /\ McFinished(mc.part)
    /\ \E c \in StaticCuts(mc.num_paths) : mc' = terminals_entry(mc, c)
    /\ UNCHANGED nonMc

McTerminal(t) ==
    /\ mc.pc = "terminals"
    /\ mc.cur[t] <= mc.tpart[t].hi
    /\ mc' = mc_terminal(mc, t)
    /\ UNCHANGED nonMc

\* the barrier of the last parallel loop, then the serial tail
McReduce ==
    /\ \/ /\ mc.pc = "paths"
          /\ ~(mc.fn = "price" /\ mc.vr = "CONTROL_VARIATE")
          /\ McFinished(mc.part)
       \/ /\ mc.pc = "terminals"
          /\ McFinished(mc.tpart)
    /\ mc' = mc_reduce(mc)
    /\ UNCHANGED nonMc

NextMC ==
    \/ price_call
    \/ multistep_call
    \/ \E t \in Threads : McPath(t)
    \/ McForkTerminals
    \/ \E t \in Threads : McTerminal(t)
    \/ McReduce

SpecMC == Init /\ [][NextMC]_vars

(* ---- claims about the engine ---- *)

\* C10: in price and price_multistep the path indices are partitioned among
\* the threads into disjoint ranges; under every interleaving payoffs[i] is
\* written at most once, exactly once when the loop has ended, by exactly one
\* thread, and a thread writes no index outside its range.
C10_DisjointPayoffRanges ==
    mc.pc # "idle" =>
        /\ \A t1, t2 \in Threads :
              t1 # t2 => ChunkIdx(mc.part[t1]) \cap ChunkIdx(mc.part[t2]) = {}
        /\ UNION {ChunkIdx(mc.part[t]) : t \in Threads} = 1..mc.num_paths
        /\ \A e \in mc.log :
              e.arr = "payoffs" => e.idx \in ChunkIdx(mc.part[e.t])
        /\ \A i \in 1..mc.num_paths :
              /\ mc.writes[i] <= 1
              /\ mc.writes[i] =
                    Cardinality({e \in mc.log :
                                    e.arr = "payoffs" /\ e.idx = i})
        /\ mc.pc \in {"terminals", "done"} =>
              \A i \in 1..mc.num_paths : mc.writes[i] = 1

\* price_multistep has returned after two threads shared three paths
C10_Witness ==
    /\ mc.pc = "done"
    /\ mc.fn = "price_multistep"
    /\ mc.num_paths = 3
    /\ \E t1, t2 \in Threads :
          /\ t1 # t2
          /\ \E e1, e2 \in mc.log : e1.t = t1 /\ e2.t = t2

(* ------------------------------------------------------------------ *)
(* The two parallel computations side by side                          *)
(* ------------------------------------------------------------------ *)

\* one activation of calibrate or one of the Monte Carlo engine
NextPar ==
    \/ mc = McIdle /\ NextCal
    \/ cal = CalIdle /\ NextMC

SpecPar == Init /\ [][NextPar]_vars

\* the slots the reduction of the engine reads have all been written
McSlotsWritten ==
    /\ \A i \in 1..mc.num_paths : mc.writes[i] = 1
    /\ (mc.fn = "price" /\ mc.vr = "CONTROL_VARIATE") =>
          \A i \in 1..mc.num_paths :
              \E e \in mc.log : e.arr = "terminals" /\ e.idx = i

\* C11: in both parallel computations the reduction starts only after every
\* worker has finished: when it runs, no worker holds an iteration or has one
\* left in its chunk, and every slot it reads has been written by its worker.
C11_ReductionAfterJoin ==
    /\ [][(cal'.joined /\ ~cal.joined) =>
            /\ \A w \in Workers : cal.wk[w].pc = "free"
            /\ cal.next > Len(cal.quotes)
            /\ \A i \in 1..Len(cal.quotes) : cal.writes[i] = 1
            /\ cal'.surface = cal.surface]_vars
    /\ [][(mc'.joined /\ ~mc.joined) =>
            /\ \A t \in Threads :
                  mc.cur[t] > (IF mc.pc = "terminals" THEN mc.tpart[t].hi
                               ELSE mc.part[t].hi)
            /\ McSlotsWritten
            /\ mc'.payoffs = mc.payoffs /\ mc'.terminals = mc.terminals]_vars
    /\ [](cal.joined => cal.pc = "done")
    /\ [](mc.joined => mc.pc = "done")
    /\ [](~cal.joined => cal.sse = 0 /\ cal.total_rmse = 0 /\ cal.max_error = 0)
    /\ [](~mc.joined => mc.price = 0 /\ mc.std_error = 0)

\* the control-variate reduction has run over three paths
C11_Witness ==
    /\ mc.joined
    /\ mc.vr = "CONTROL_VARIATE"
    /\ mc.num_paths = 3
    /\ \E t \in Threads : mc.tpart[t].hi - mc.tpart[t].lo = 0

(* ---- reproducibility of the single-step engine ---- *)

\* what price returns when one thread runs every path in order
price_serial(p, num_paths, vr, seed) ==
    LET c == [t \in 0..NumThreads |-> IF t = 0 THEN 0 ELSE num_paths]
        st == price_entry(p, num_paths, vr, seed, c)
    IN  mc_reduce([st EXCEPT
            !.payoffs = [i \in 1..num_paths |->
                            intrinsic_value(path_terminal(st, i), p.K, p.type)],
            !.terminals = IF vr = "CONTROL_VARIATE"
                          THEN [i \in 1..num_paths |-> path_terminal(st, i)]
                          ELSE <<>>])

\* C12: price is reproducible: whatever the division of the paths among the
\* threads and their interleaving, a call returns the price and standard
\* error that the contract, path count, variance reduction mode and seed
\* determine, its draws being those generated from the seed before the loop.
C12_PriceReproducible ==
    (mc.pc = "done" /\ mc.fn = "price") =>
        LET ref == price_serial(mc.p, mc.num_paths, mc.vr, mc.seed)
        IN  /\ mc.price = ref.price
            /\ mc.std_error = ref.std_error
            /\ mc.z = ref.z
            /\ mc.payoffs = ref.payoffs

\* a call over three paths, split between two threads, has returned a price
C12_Witness ==
    /\ mc.pc = "done" /\ mc.fn = "price"
    /\ mc.num_paths = 3 /\ mc.vr = "ANTITHETIC"
    /\ mc.part[1].hi = 1
    /\ IsFinite(mc.price) /\ mc.price > 0

(* ---- the generators of the multi-step engine ---- *)

\* the generator thread t holds when it starts path i of its chunk
rng_before(t, i) ==
    [seed |-> mc.seed + (t - 1) * 1000,
     pos |-> mc.num_steps * (i - mc.part[t].lo)]

\* C13: in price_multistep every thread draws from its own generator, seeded
\* with seed + thread index * 1000: the seeds of distinct threads differ, a
\* step of one thread advances no other thread's generator, and the draws of
\* a path are those of the thread's generator after the paths the thread ran
\* before it.
C13_OwnGenerator ==
    /\ [](mc.fn = "price_multistep" =>
            /\ \A t \in Threads :
                  /\ mc.rng[t].seed = mc.seed + (t - 1) * 1000
                  /\ mc.rng[t] = rng_before(t, mc.cur[t])
            /\ \A t1, t2 \in Threads :
                  t1 # t2 => mc.rng[t1].seed # mc.rng[t2].seed
            /\ \A e \in mc.log :
                  mc.payoffs[e.idx] =
                      intrinsic_value(
                          path_walk(mc, rng_before(e.t, e.idx), mc.p.S, 0),
                          mc.p.K, mc.p.type))
    /\ [][(mc.fn = "price_multistep" /\ mc'.rng # mc.rng) =>
            \E t \in Threads :
                /\ mc'.cur[t] = mc.cur[t] + 1
                /\ mc'.rng[t].seed = mc.rng[t].seed
                /\ mc'.rng[t].pos = mc.rng[t].pos + mc.num_steps
                /\ \A u \in Threads \ {t} :
                      mc'.rng[u] = mc.rng[u] /\ mc'.cur[u] = mc.cur[u]]_vars

\* both threads have drawn for paths of two steps
C13_Witness ==
    /\ mc.pc = "done" /\ mc.fn = "price_multistep"
    /\ mc.num_steps = 2
    /\ \A t \in Threads : mc.rng[t].pos >= 2

(* ---- early exercise in the tree ---- *)

\* the array after the levels step, step - 1, ..., stop have been processed
RECURSIVE tree_down_to(_, _, _, _, _)
tree_down_to(p, c, prices, step, stop) ==
    IF step < stop THEN prices
    ELSE tree_down_to(p, c, tree_level(p, c, prices, step, 0), step - 1, stop)

\* the values of the nodes of a level, for the contract exercised as style
tree_values(p, steps, style, level) ==
    LET ps == [p EXCEPT !.style = style]
        c == tree_coeffs(ps, steps)
    IN  tree_down_to(ps, c, tree_terminal(ps, c, steps), steps - 1, level)

AmericanDominates(p, steps) ==
    \A level \in 0..steps : \A i \in 0..level :
        FGe(tree_values(p, steps, "AMERICAN", level)[i],
            tree_values(p, steps, "EUROPEAN", level)[i])

\* C14: for the same contract parameters and step count the American price is
\* at least the European price, at the root and at every node of every level
\* of the backward induction.
C14_AmericanAtLeastEuropean ==
    tree.called => AmericanDominates(tree.p, tree.steps)

\* the same, for the calls whose risk-neutral probability is inside (0, 1)
DominatesWhenStable ==
    (tree.called /\ StableProb(tree.prob)) => AmericanDominates(tree.p, tree.steps)

(* ---- the unit of the finite-difference theta ---- *)

\* compute has assigned g.theta
ThetaReported == fd.pc \in {"vega", "rho", "vanna", "volga", "charm", "speed", "done"}

\* C15: the theta reported by compute is per calendar day, in the unit of the
\* closed-form BlackScholes::theta: the two agree within 0.1 per day.
C15_ThetaPerDay ==
    ThetaReported =>
        FLe(FAbs(FSub(fd.g.theta, BS_theta(fd.p))), SCALE \div 10)

(* ---- the statistics calibrate reports ---- *)

\* the sum of the squared errors of the points k, k + 1, ... of a surface
RECURSIVE SumSqErrors(_, _)
SumSqErrors(surface, k) ==
    IF k > Len(surface) THEN 0
    ELSE FAdd(FMul(surface[k].error, surface[k].error), SumSqErrors(surface, k + 1))

\* IEEE equality: false as soon as one side is NaN
SameNumber(a, b) == FLe(a, b) /\ FLe(b, a)

ErrorStatistics(c) ==
    /\ \A k \in 1..Len(c.surface) :
          /\ SameNumber(c.surface[k].error,
                        FAbs(FSub(c.surface[k].model_price, c.surface[k].market_price)))
          /\ FGe(c.surface[k].error, 0)
          /\ FLe(c.surface[k].error, c.max_error)
    /\ \/ \E k \in 1..Len(c.surface) : SameNumber(c.max_error, c.surface[k].error)
       \/ Len(c.surface) = 0 /\ SameNumber(c.max_error, 0)
    /\ SameNumber(c.total_rmse,
                  FSqrt(FDiv(SumSqErrors(c.surface, 1), Len(c.surface) * SCALE)))

StatisticsWhenNonEmpty ==
    (cal.pc = "done" /\ Len(cal.quotes) > 0) => ErrorStatistics(cal)

(* ---- the implied-volatility round trip ---- *)

\* the contracts of the round-trip tests: at the money, a put in the money,
\* and the call of iv_deep_otm
TripContracts ==
    {[S |-> 100000, K |-> 100000, T |-> 1000, r |-> 50, q |-> 0, type |-> "CALL"],
     [S |-> 100000, K |-> 110000, T |-> 500, r |-> 50, q |-> 0, type |-> "PUT"],
     [S |-> 100000, K |-> 150000, T |-> 250, r |-> 50, q |-> 0, type |-> "CALL"]}

\* volatilities 0.05, 0.5 and 1.0
TripSigmas == {50, 500, 1000}

\* the analytic price of contract c at volatility sg
trip_price(c, sg) ==
    BS_price(OptionParams(c.S, c.K, c.T, c.r, sg, c.q, c.type)).price

\* a caller prices a contract and passes the price to solve, tol and max_iter
\* left to their defaults
trip_call ==
    /\ solver.pc = "idle"
    /\ \E c \in TripContracts : \E sg \in TripSigmas :
          solver' = solve_entry([market_price |-> trip_price(c, sg), S |-> c.S,
                                 K |-> c.K, T |-> c.T, r |-> c.r, q |-> c.q,
                                 type |-> c.type, tol |-> DefaultTol,
                                 max_iter |-> DefaultMaxIter])
    /\ UNCHANGED nonSolver

NextTrip == trip_call \/ NewtonIter \/ NewtonBudget \/ BisectIter \/ BisectBudget

SpecTrip == Init /\ [][NextTrip]_vars

\* solve has returned a volatility within 0.02 of every volatility at which
\* the contract has the price it was given
Recovered(st) ==
    \A sg \in TripSigmas :
        SameNumber(st.a.market_price, trip_price(st.a, sg))
            => FLe(FAbs(FSub(st.ret, sg)), 20)

\* C17: pricing a contract at a volatility in [0.05, 1.0] and passing the price
\* to solve with the same contract returns that volatility, within the
\* tolerance of the round trip.
C17_RoundTrip == solver.pc = "done" => Recovered(solver)

\* the same, for the prices above the price tolerance of solve
RoundTripWhenPriced ==
    (solver.pc = "done" /\ FGt(solver.a.market_price, solver.a.tol))
        => Recovered(solver)

(* ---- calibrating generated quotes ---- *)

\* lines 85-96: the quote the generator prices for strike K and expiry T
generate_quote(spot, rate, K, T, base_vol, skew, smile) ==
    LET m == FLog(FDiv(K, spot))
        term_adj == FSqrt(FDiv(SCALE \div 2, T))
        vol == FMax(FAdd(FAdd(base_vol, FMul(FMul(skew, m), term_adj)),
                         FMul(FMul(smile, m), m)),
                    50)
        type == IF FGe(K, spot) THEN "CALL" ELSE "PUT"
    IN  MarketQuote(K, T,
            BS_price(OptionParams(spot, K, T, rate, vol, 0, type)).price, type)

\* lines 73-101: one quote per expiry and strike, the strikes of an expiry
\* together
generate_market_quotes(spot, rate, strikes, expiries, base_vol, skew, smile) ==
    [i \in 1..(Len(expiries) * Len(strikes)) |->
        generate_quote(spot, rate, strikes[((i - 1) % Len(strikes)) + 1],
                       expiries[((i - 1) \div Len(strikes)) + 1],
                       base_vol, skew, smile)]

\* strike lists of length 1 .. MaxStrikes
MaxStrikes == 2

GenStrikes == {SubSeq(<<100000, 90000, 110000, 95000>>, 1, n) : n \in 1..MaxStrikes}
GenExpiries == {<<80>>, <<1000, 250>>}
\* the default base volatility and one above the bracket of the bisection
GenBaseVols == {200, 6000}

\* a caller generates quotes, skew and smile left to their defaults, and
\* calibrates to them
generated_call ==
    /\ cal.pc = "idle"
    /\ \E ks \in GenStrikes : \E es \in GenExpiries : \E bv \in GenBaseVols :
          cal' = calibrate_entry(
                     generate_market_quotes(100 * SCALE, 50, ks, es, bv, -100, 50),
                     100 * SCALE, 50, 0)
    /\ UNCHANGED nonCal

NextGen ==
    \/ generated_call
    \/ \E w \in Workers : CalGrab(w)
    \/ \E w \in Workers : CalFit(w)
    \/ \E w \in Workers : CalStore(w)
    \/ CalReduce

SpecGen == Init /\ [][NextGen]_vars

\* C19 as stated: every point of a surface calibrated to generated quotes has
\* an implied volatility strictly between 0 and 5.0.
C19_VolsBelowFive ==
    CalDone =>
        \A i \in 1..Len(cal.surface) :
            FGt(cal.surface[i].implied_vol, 0) /\ FLt(cal.surface[i].implied_vol, BracketHi)

\* C19: every point of a surface calibrated to generated quotes has an implied
\* volatility strictly greater than 0 and at most 10.0, the bound of the
\* Newton iterate.
C19_VolsInSolverRange ==
    CalDone =>
        \A i \in 1..Len(cal.surface) :
            FGt(cal.surface[i].implied_vol, 0) /\ FLe(cal.surface[i].implied_vol, SigmaHi)

\* a returned surface of several generated quotes, one of them fitted with a
\* volatility above 5.0
C19_Witness ==
    /\ CalDone
    /\ Len(cal.surface) > 1
    /\ \E i \in 1..Len(cal.surface) : FGt(cal.surface[i].implied_vol, BracketHi)

(* ------------------------------------------------------------------ *)
(* RiskManager                                                         *)
(* ------------------------------------------------------------------ *)

\* lines 58-67
check_drawdown(rm, equity) ==
    LET peak == IF FGt(equity, rm.peak_equity) THEN equity ELSE rm.peak_equity
        dd == FSub(SCALE, FDiv(equity, peak))
        stopped == IF FGe(dd, rm.max_drawdown_pct) THEN TRUE ELSE rm.is_stopped
    IN  [rm EXCEPT !.peak_equity = peak, !.is_stopped = stopped,
                   !.seen = Append(@, equity), !.op = "check_drawdown",
                   !.ret = stopped]

\* line 74
is_stopped(rm) == [rm EXCEPT !.op = "is_stopped", !.ret = rm.is_stopped]

\* lines 76-79
reset(rm) ==
    [rm EXCEPT !.peak_equity = 0, !.is_stopped = FALSE, !.seen = <<>>,
               !.op = "reset"]

\* at most MaxObs equities are shown between two resets
MaxObs == 3

\* equities of the drawdown test, and a zero and a negative one
RiskEquities == {e * SCALE : e \in {-50, 0, 87, 95, 100, 110}}

check_drawdown_call ==
    /\ Len(risk.seen) < MaxObs
    /\ \E equity \in RiskEquities : risk' = check_drawdown(risk, equity)
    /\ UNCHANGED nonRisk

is_stopped_call ==
    /\ risk' = is_stopped(risk)
    /\ UNCHANGED nonRisk

reset_call ==
    /\ risk' = reset(risk)
    /\ UNCHANGED nonRisk

NextRisk == check_drawdown_call \/ is_stopped_call \/ reset_call

SpecRisk == Init /\ [][NextRisk]_vars

\* the largest of the first k equities shown
RunningPeak(seen, k) ==
    CHOOSE x \in {seen[j] : j \in 1..k} : \A j \in 1..k : seen[j] <= x

\* some equity shown was at least pct below the running peak
Breached(seen, pct) ==
    \E k \in 1..Len(seen) :
        FGe(FSub(SCALE, FDiv(seen[k], RunningPeak(seen, k))), pct)

\* C20: the drawdown stop is a latch on the running peak of the equities
\* shown since the last reset: check_drawdown and is_stopped return true
\* exactly when one of them was at least max_drawdown_pct below the running
\* peak, whatever followed, and is_stopped is false after reset.
C20_DrawdownLatch ==
    /\ risk.op \in {"check_drawdown", "is_stopped"}
          => (risk.ret <=> Breached(risk.seen, risk.max_drawdown_pct))
    /\ risk.op = "reset" => ~risk.is_stopped

\* the same, when every equity shown since the last reset is positive
LatchWhenPositive ==
    (\A k \in 1..Len(risk.seen) : risk.seen[k] > 0) => C20_DrawdownLatch

(* ------------------------------------------------------------------ *)
(* Portfolio                                                           *)
(* ------------------------------------------------------------------ *)

\* a value-initialized Position (types.h), the symbol being the key
EmptyPosition == [quantity |-> 0, avg_cost |-> 0, realized_pnl |-> 0]

Order(symbol, side, quantity, market_price, slippage, commission) ==
    [symbol |-> symbol, side |-> side, quantity |-> quantity,
     market_price |-> market_price, slippage |-> slippage,
     commission |-> commission]

IMin(a, b) == IF b < a THEN b ELSE a

\* an int converted to double
ToDouble(n) == n * SCALE

\* lines 13-15
fill_price_of(o) ==
    IF o.side = "BUY" THEN FMul(o.market_price, FAdd(SCALE, o.slippage))
    ELSE FMul(o.market_price, FSub(SCALE, o.slippage))

\* line 30
buy_cost(o) == FAdd(FMul(fill_price_of(o), ToDouble(o.quantity)), o.commission)

\* line 50
sell_proceeds(o) == FSub(FMul(fill_price_of(o), ToDouble(o.quantity)), o.commission)

\* line 26: operator[] inserts a value-initialized position for a new key
positions_at(positions, sym) ==
    [s \in DOMAIN positions \cup {sym} |->
        IF s \in DOMAIN positions THEN positions[s] ELSE EmptyPosition]

\* lines 72-75
erase_if_zero(positions, sym) ==
    IF positions[sym].quantity = 0
    THEN [s \in DOMAIN positions \ {sym} |-> positions[s]]
    ELSE positions

\* lines 34-46: the position after a BUY that is paid for
buy_position(pos, o) ==
    LET fp == fill_price_of(o)
        new_qty == pos.quantity + o.quantity
    IN  IF pos.quantity >= 0
        THEN [pos EXCEPT !.quantity = new_qty,
                         !.avg_cost = FDiv(FAdd(FMul(pos.avg_cost, ToDouble(pos.quantity)),
                                                FMul(fp, ToDouble(o.quantity))),
                                           ToDouble(new_qty))]
        ELSE [pos EXCEPT !.quantity = new_qty,
                         !.realized_pnl =
                             FAdd(@, FMul(FSub(pos.avg_cost, fp),
                                          ToDouble(IMin(o.quantity, -pos.quantity)))),
                         !.avg_cost = IF o.quantity > -pos.quantity THEN fp ELSE @]

\* lines 52-53: the quantity closed by a SELL and its profit
sell_pnl(pos, o) ==
    FMul(FSub(fill_price_of(o), pos.avg_cost),
         ToDouble(IMin(o.quantity, pos.quantity)))

\* lines 51-69: the position after a SELL
sell_position(pos, o) ==
    [pos EXCEPT !.quantity = pos.quantity - o.quantity,
                !.realized_pnl = IF pos.quantity > 0 THEN FAdd(@, sell_pnl(pos, o)) ELSE @,
                !.avg_cost = IF pos.quantity - o.quantity < 0 THEN fill_price_of(o) ELSE @]

\* lines 56-62: the trade a SELL of a long position records
trade_record(pos, o) ==
    [symbol |-> o.symbol, side |-> o.side,
     quantity |-> IMin(o.quantity, pos.quantity),
     entry_price |-> pos.avg_cost, exit_price |-> fill_price_of(o),
     pnl |-> sell_pnl(pos, o),
     return_pct |-> FDiv(FSub(fill_price_of(o), pos.avg_cost), pos.avg_cost)]

\* execute_fill with the lookup of line 26 moved behind the cash test
execute_fill_checked_first(p, o) ==
    LET held == positions_at(p.positions, o.symbol)
        pos == held[o.symbol]
        called == [p EXCEPT !.calls = @ + 1, !.last = o]
    IN  IF o.side = "BUY"
        THEN IF FGt(buy_cost(o), p.cash)
             THEN [called EXCEPT !.thrown = TRUE]
             ELSE [called EXCEPT
                      !.thrown = FALSE,
                      !.positions = erase_if_zero(
                          [held EXCEPT ![o.symbol] = buy_position(pos, o)], o.symbol),
                      !.cash = FSub(@, buy_cost(o)),
                      !.net[o.symbol] = @ + o.quantity]
        ELSE [called EXCEPT
                 !.thrown = FALSE,
                 !.positions = erase_if_zero(
                     [held EXCEPT ![o.symbol] = sell_position(pos, o)], o.symbol),
                 !.trades = IF pos.quantity > 0 THEN Append(@, trade_record(pos, o)) ELSE @,
                 !.cash = FAdd(@, sell_proceeds(o)),
                 !.net[o.symbol] = @ - o.quantity]

\* execute_fill with the commission left out of line 47
execute_fill_no_commission(p, o) ==
    LET r == execute_fill_checked_first(p, o)
    IN  IF o.side = "BUY" /\ ~r.thrown
        THEN [r EXCEPT !.cash = FSub(p.cash, FMul(fill_price_of(o), ToDouble(o.quantity)))]
        ELSE r

\* lines 12-78
execute_fill(p, o) ==
    LET held == positions_at(p.positions, o.symbol)
        pos == held[o.symbol]
        called == [p EXCEPT !.calls = @ + 1, !.last = o]
    IN  IF o.side = "BUY"
        THEN IF FGt(buy_cost(o), p.cash)
             THEN [called EXCEPT !.thrown = TRUE, !.positions = held]
             ELSE [called EXCEPT
                      !.thrown = FALSE,
                      !.positions = erase_if_zero(
                          [held EXCEPT ![o.symbol] = buy_position(pos, o)], o.symbol),
                      !.cash = FSub(@, buy_cost(o)),
                      !.net[o.symbol] = @ + o.quantity]
        ELSE [called EXCEPT
                 !.thrown = FALSE,
                 !.positions = erase_if_zero(
                     [held EXCEPT ![o.symbol] = sell_position(pos, o)], o.symbol),
                 !.trades = IF pos.quantity > 0 THEN Append(@, trade_record(pos, o)) ELSE @,
                 !.cash = FAdd(@, sell_proceeds(o)),
                 !.net[o.symbol] = @ - o.quantity]

\* lines 102-104
num_positions(p) == Cardinality(DOMAIN p.positions)

\* lines 111-113
has_position(p, sym) == sym \in DOMAIN p.positions

\* lines 115-122, as a set
position_symbols(p) == DOMAIN p.positions

\* at most MaxFills calls of execute_fill
MaxFills == 3

\* market price and slippage of a fill
PfQuotes == {<<10 * SCALE, 0>>, <<20 * SCALE, 0>>, <<10 * SCALE, 100>>}

PfOrders ==
    {Order(sym, side, qty, pq[1], pq[2], SCALE) :
        sym \in PfSymbols, side \in {"BUY", "SELL"}, qty \in 1..2, pq \in PfQuotes}

\* a caller, catching the error as process_signals does, calls execute_fill
execute_fill_call ==
    /\ pf.calls < MaxFills
    /\ \E o \in PfOrders : pf' = execute_fill(pf, o)
    /\ UNCHANGED nonPf

NextPf == execute_fill_call

SpecPf == Init /\ [][NextPf]_vars

(* ---- claims about the Portfolio ---- *)

\* the symbols whose net filled quantity is not zero
NetHeld(p) == {sym \in PfSymbols : p.net[sym] # 0}

\* C21: the Portfolio never holds a zero-quantity position: after any
\* sequence of execute_fill calls has_position(sym) is true exactly when the
\* net filled quantity of sym is not zero, and num_positions() counts these
\* symbols.
C21_NoZeroPosition ==
    /\ \A sym \in PfSymbols : has_position(pf, sym) <=> pf.net[sym] # 0
    /\ num_positions(pf) = Cardinality(NetHeld(pf))
    /\ \A sym \in position_symbols(pf) : pf.positions[sym].quantity # 0

\* the last step was a call of execute_fill
FillStep == pf'.calls = pf.calls + 1

\* C22: a successful BUY lowers cash by exactly fill_price * quantity +
\* commission and a SELL raises it by exactly fill_price * quantity -
\* commission; a BUY is rejected exactly when its cost exceeds the cash, so
\* from non-negative cash no BUY makes cash negative.
C22_CashAccounting ==
    [][FillStep =>
        LET o == pf'.last
            notional == FMul(fill_price_of(o), ToDouble(o.quantity))
        IN  /\ o.side = "BUY" =>
                  /\ pf'.thrown <=> FGt(FAdd(notional, o.commission), pf.cash)
                  /\ pf'.thrown => pf'.cash = pf.cash
                  /\ ~pf'.thrown => pf'.cash = FSub(pf.cash, FAdd(notional, o.commission))
                  /\ FGe(pf.cash, 0) => FGe(pf'.cash, 0)
            /\ o.side = "SELL" =>
                  /\ ~pf'.thrown
                  /\ pf'.cash = FAdd(pf.cash, FSub(notional, o.commission))]_vars

\* a BUY was rejected after a SELL that closed part of a bought position
C22_Witness ==
    /\ pf.thrown
    /\ pf.last.side = "BUY"
    /\ Len(pf.trades) > 0
    /\ pf.cash < 50 * SCALE

\* C30: a rejected order leaves the Portfolio unchanged: when execute_fill
\* throws, cash, the held positions with their quantities and average costs,
\* and the trade history are what they were before the call.
C30_RejectedUnchanged ==
    [][(FillStep /\ pf'.thrown) =>
        /\ pf'.cash = pf.cash
        /\ position_symbols(pf') = position_symbols(pf)
        /\ num_positions(pf') = num_positions(pf)
        /\ pf'.positions = pf.positions
        /\ pf'.trades = pf.trades]_vars

\* the same, for the rejected orders on a symbol that is held
UnchangedWhenHeld ==
    [][(FillStep /\ pf'.thrown /\ has_position(pf, pf'.last.symbol)) =>
        /\ pf'.cash = pf.cash
        /\ pf'.positions = pf.positions
        /\ pf'.trades = pf.trades]_vars

(* ------------------------------------------------------------------ *)
(* WalkForwardValidator::generate_windows, one iteration at a time     *)
(* ------------------------------------------------------------------ *)

\* lines 44-47: the function is entered, start = 0
generate_windows_entry(total_bars, train_days, test_days, step_days) ==
    [pc |-> "loop", total_bars |-> total_bars, train_days |-> train_days,
     test_days |-> test_days, step_days |-> step_days, start |-> 0, id |-> 0,
     windows |-> <<>>]

\* line 47 with the bound one bar too far
wf_cond_loose(w) == w.start + w.train_days + w.test_days <= w.total_bars + 1

\* line 47: the loop condition
wf_cond(w) == w.start + w.train_days + w.test_days <= w.total_bars

\* lines 48-53: the window starting at w.start
wf_window(w) ==
    [window_id |-> w.id,
     train_start |-> w.start,
     train_end |-> w.start + w.train_days - 1,
     test_start |-> w.start + w.train_days,
     test_end |-> IMin(w.start + w.train_days + w.test_days - 1, w.total_bars - 1)]

\* lines 47-55: one iteration
wf_body(w) ==
    [w EXCEPT !.windows = Append(@, wf_window(w)), !.id = @ + 1,
              !.start = @ + w.step_days]

\* series of 0 .. MaxBars bars, day counts 1 .. MaxDays
MaxBars == 6
MaxDays == 2

generate_windows_call ==
    /\ wf.pc = "idle"
    /\ \E total_bars \in 0..MaxBars : \E train_days, test_days, step_days \in 1..MaxDays :
          wf' = generate_windows_entry(total_bars, train_days, test_days, step_days)
    /\ UNCHANGED nonWf

\* line 47 holds: one more window
WfWindow ==
    /\ wf.pc = "loop"
    /\ wf_cond(wf)
    /\ wf' = wf_body(wf)
    /\ UNCHANGED nonWf

\* line 47 fails: the windows are returned
WfReturn ==
    /\ wf.pc = "loop"
    /\ ~wf_cond(wf)
    /\ wf' = [wf EXCEPT !.pc = "done"]
    /\ UNCHANGED nonWf

NextWf == generate_windows_call \/ WfWindow \/ WfReturn

SpecWf == Init /\ [][NextWf]_vars

(* ---- claims about the windows ---- *)

\* what holds of the windows whatever the training length
WindowsInOrder(w) ==
    /\ \A i \in 1..Len(w.windows) :
          LET x == w.windows[i]
          IN  /\ x.train_end < x.test_start
              /\ x.test_start <= x.test_end
              /\ x.test_end < w.total_bars
              /\ x.train_end - x.train_start + 1 = w.train_days
              /\ x.test_end - x.test_start + 1 \in 1..w.test_days
    /\ \A i \in 2..Len(w.windows) :
          w.windows[i].train_start = w.windows[i - 1].train_start + w.step_days
    /\ w.total_bars < w.train_days + w.test_days => w.windows = <<>>

bisection_solve(a) ==
    solve_steps([SolverIdle EXCEPT !.pc = "bisect", !.a = a, !.lo = BracketLo,
                                   !.hi = BracketHi],
                BisectIters + 1).ret

\* C24: whenever solve leaves the Newton loop without converging, the value
\* it returns is that of a bisection run from scratch on [0.001, 5.0] with the
\* same market price, parameters and tolerance, whatever the last Newton
\* iterate.
C24_FallbackFromScratch ==
    (SolverDone /\ solver.left \in {"vega", "budget"})
        => solver.ret = bisection_solve(solver.a)

\* solve returned from the fallback after Newton iterations that moved sigma
\* away from the initial guess
C24_Witness ==
    /\ SolverDone
    /\ solver.left \in {"vega", "budget"}
    /\ solver.i > 0
    /\ solver.sigma # solve_entry(solver.a).sigma

\* the model price at volatility sg of the contract being solved
price_at(st, sg) == BS_price(solve_params(st.a, sg)).price

Midpoint(st) == FDiv(FAdd(st.lo, st.hi), 2 * SCALE)

\* price(lo) <= market <= price(hi)
Bracketed(st) ==
    /\ FLe(price_at(st, st.lo), st.a.market_price)
    /\ FLe(st.a.market_price, price_at(st, st.hi))

\* a step that stays in the bisection loop
BisectStep == solver.pc = "bisect" /\ solver'.pc = "bisect"

\* C25: throughout bisection_solve 0.001 <= lo <= hi <= 5.0; each iteration
\* replaces exactly one endpoint by the midpoint (hi when the model price
\* exceeds the market price, lo otherwise), halving the width; a bracket with
\* price(lo) <= market <= price(hi) keeps that property; the value returned
\* is the midpoint of the bracket reached.
C25_BracketInvariant ==
    /\ [](solver.pc = "bisect" =>
            BracketLo <= solver.lo /\ solver.lo <= solver.hi /\ solver.hi <= BracketHi)
    /\ [][BisectStep =>
            /\ IF FGt(price_at(solver, Midpoint(solver)), solver.a.market_price)
               THEN solver'.hi = Midpoint(solver) /\ solver'.lo = solver.lo
               ELSE solver'.lo = Midpoint(solver) /\ solver'.hi = solver.hi
            /\ 2 * (solver'.hi - solver'.lo) - (solver.hi - solver.lo) \in {-1, 0, 1}
            /\ Bracketed(solver) => Bracketed(solver')]_vars
    /\ []((SolverDone /\ solver.by \in {"bisection", "best_estimate"})
            => solver.ret = Midpoint(solver))

\* the bisection has narrowed both ends of a bracket that holds the market
\* price
C25_Witness ==
    /\ solver.pc = "bisect"
    /\ solver.lo > BracketLo
    /\ solver.hi < BracketHi
    /\ solver.j > 3
    /\ Bracketed(solver)

\* the model price at volatility sg is within the tolerance of the market
\* price
WithinTol(st, sg) ==
    FLt(FAbs(FSub(price_at(st, sg), st.a.market_price)), st.a.tol)

\* the state of line 32 in which the convergence test is true
NewtonConverged ==
    solver.pc = "newton" /\ newton_cond(solver) /\ WithinTol(solver, solver.sigma)

\* C26: whenever solve returns before the bisection budget is spent, from the
\* Newton loop or from inside the bisection loop, the model price at the
\* returned volatility is within tol of the market price; in each Newton
\* iteration the convergence test comes before the vega test and before any
\* step.
C26_EarlyReturnWithinTol ==
    /\ []((SolverDone /\ solver.by \in {"newton", "bisection"})
            => WithinTol(solver, solver.ret))
    /\ [][NewtonConverged =>
            /\ solver'.pc = "done"
            /\ solver'.by = "newton"
            /\ solver'.ret = solver.sigma
            /\ solver'.divisions = solver.divisions]_vars

\* solve returned from the Newton loop at a volatility where |vega| is below
\* the threshold of the vega test
C26_Witness ==
    /\ SolverDone
    /\ solver.by = "newton"
    /\ FLt(FAbs(FMul(BS_vega(solve_params(solver.a, solver.ret)), 100 * SCALE)), VegaEps)

(* ------------------------------------------------------------------ *)
(* RandomGenerator, one call at a time                                 *)
(* ------------------------------------------------------------------ *)

\* sample counts 0 .. MaxSamples
MaxSamples == 4

\* the seeds of the engine, and seeds whose uniform draws come close to 1
RgSeeds == {7, 42} \cup 605..612

generate_normals_call ==
    /\ rg.fn = "none"
    /\ \E n \in 0..MaxSamples : \E seed \in RgSeeds :
          rg' = [fn |-> "generate_normals", n |-> n, seed |-> seed,
                 samples |-> generate_normals(n, seed)]
    /\ UNCHANGED nonRg

generate_antithetic_call ==
    /\ rg.fn = "none"
    /\ \E n \in 0..MaxSamples : \E seed \in RgSeeds :
          rg' = [fn |-> "generate_antithetic", n |-> n, seed |-> seed,
                 samples |-> generate_antithetic(n, seed)]
    /\ UNCHANGED nonRg

generate_stratified_call ==
    /\ rg.fn = "none"
    /\ \E n \in 0..MaxSamples : \E seed \in RgSeeds :
          rg' = [fn |-> "generate_stratified", n |-> n, seed |-> seed,
                 samples |-> generate_stratified(n, seed)]
    /\ UNCHANGED nonRg

NextRg == generate_normals_call \/ generate_antithetic_call \/ generate_stratified_call

SpecRg == Init /\ [][NextRg]_vars

(* ---- claims about the samples ---- *)

\* the sum of the samples k, k + 1, ... in index order
RECURSIVE SumFrom(_, _)
SumFrom(samples, k) ==
    IF k > Len(samples) THEN 0 ELSE FAdd(samples[k], SumFrom(samples, k + 1))

\* C27: generate_antithetic(n, seed) returns exactly n samples; for every
\* i < floor(n / 2), sample[2i + 1] = -sample[2i], sample[2i] being draw i of
\* the generator; for odd n the last sample is one more draw; for even n the
\* samples sum to zero.
C27_AntitheticPairs ==
    rg.fn = "generate_antithetic" =>
        LET half == rg.n \div 2
        IN  /\ Len(rg.samples) = rg.n
            /\ \A i \in 0..(half - 1) :
                  /\ rg.samples[2 * i + 1] = normal_draw(rg.seed, i + 1)
                  /\ rg.samples[2 * i + 2] = FNeg(rg.samples[2 * i + 1])
            /\ rg.n % 2 = 1 => rg.samples[rg.n] = normal_draw(rg.seed, half + 1)
            /\ rg.n % 2 = 0 => SumFrom(rg.samples, 1) = 0

\* two pairs of samples that are not zero, from different draws
C27_Witness ==
    /\ rg.fn = "generate_antithetic"
    /\ rg.n = 4
    /\ rg.samples[1] # 0
    /\ rg.samples[3] # 0
    /\ rg.samples[1] # rg.samples[3]

\* the uniform values of the last generate_stratified call, in sample order
StratifiedU == [i \in 1..rg.n |-> stratified_u(rg.n, rg.seed, i)]

\* every sample is the inverse-normal image of its uniform value
InverseImages ==
    /\ Len(rg.samples) = rg.n
    /\ \A i \in 1..rg.n : rg.samples[i] = norm_inv(StratifiedU[i])

\* C28: generate_stratified(N, seed) produces one sample per stratum; the
\* uniform value of sample i, i in 0..N-1, lies in [i/N, (i+1)/N), and the
\* samples are the inverse-normal images of these values.
C28_StrataHalfOpen ==
    rg.fn = "generate_stratified" =>
        /\ InverseImages
        /\ \A i \in 1..rg.n :
              /\ StratifiedU[i] * rg.n >= (i - 1) * SCALE
              /\ StratifiedU[i] * rg.n < i * SCALE

\* the same with the upper boundary of the stratum allowed
StrataClosed ==
    rg.fn = "generate_stratified" =>
        /\ InverseImages
        /\ \A i \in 1..rg.n :
              /\ StratifiedU[i] * rg.n >= (i - 1) * SCALE
              /\ StratifiedU[i] * rg.n <= i * SCALE

\* the samples do not decrease with the index
SamplesNonDecreasing ==
    rg.fn = "generate_stratified" =>
        \A i \in 1..(rg.n - 1) : rg.samples[i] <= rg.samples[i + 1]

\* the last uniform value is 1 and its sample the cap of norm_inv
LastStratumAtOne ==
    /\ rg.fn = "generate_stratified"
    /\ rg.n > 0
    /\ StratifiedU[rg.n] = SCALE

(* ---- the in-place induction of the tree against one array per level ---- *)

\* lines 31-41 stopped before node stop: the array as node stop finds it
RECURSIVE tree_level_until(_, _, _, _, _, _)
tree_level_until(p, c, prices, step, i, stop) ==
    IF i >= stop \/ i > step THEN prices
    ELSE tree_level_until(p, c, [prices EXCEPT ![i] = tree_node(p, c, prices, step, i)],
                          step, i + 1, stop)

\* the number of passes of the loop of line 30 from level step down
RECURSIVE tree_levels_processed(_)
tree_levels_processed(step) ==
    IF step < 0 THEN 0 ELSE 1 + tree_levels_processed(step - 1)

\* the reference induction: an array of its own for every level, level
\* `level` computed from the whole array of level + 1
RECURSIVE reference_level(_, _, _, _)
reference_level(p, c, steps, level) ==
    IF level = steps THEN tree_terminal(p, c, steps)
    ELSE LET next == reference_level(p, c, steps, level + 1)
         IN  [i \in 0..level |-> tree_node(p, c, next, level, i)]

\* C29: the in-place backward induction of BinomialTree::price returns the
\* root value of the reference induction with one array per level; when node
\* i of level step is computed, prices[i] and prices[i + 1] still hold the
\* values of level step + 1; level step writes nodes 0..step and no other;
\* steps levels are processed.
C29_InPlaceInduction ==
    tree.called =>
        LET p == tree.p
            steps == tree.steps
            c == tree_coeffs(p, steps)
            terminal == tree_terminal(p, c, steps)
        IN  /\ tree.price = reference_level(p, c, steps, 0)[0]
            /\ tree_levels_processed(steps - 1) = steps
            /\ \A step \in 0..(steps - 1) :
                  LET before == tree_down_to(p, c, terminal, steps - 1, step + 1)
                      after == tree_level(p, c, before, step, 0)
                      above == reference_level(p, c, steps, step + 1)
                  IN  /\ \A i \in 0..step :
                            LET found == tree_level_until(p, c, before, step, 0, i)
                            IN  /\ found[i] = above[i]
                                /\ found[i + 1] = above[i + 1]
                      /\ \A i \in 0..step :
                            after[i] = reference_level(p, c, steps, step)[i]
                      /\ \A j \in (step + 1)..steps : after[j] = before[j]

\* an American contract priced over three levels or more, the first level
\* processed overwriting terminal payoffs with different values
C29_Witness ==
    /\ tree.called
    /\ tree.steps >= 3
    /\ tree.p.style = "AMERICAN"
    /\ tree.price > 0
    /\ LET c == tree_coeffs(tree.p, tree.steps)
           terminal == tree_terminal(tree.p, c, tree.steps)
           after == tree_level(tree.p, c, terminal, tree.steps - 1, 0)
       IN  /\ after[0] # terminal[0]
           /\ after[1] # terminal[1]
====
